---- MODULE Spec2Model ----
(***************************************************************************)
(* CriddOS persistent storage: the FAT16 volume of src/kernel/kernel.c     *)
(* (fat16_init, fat_get_entry, fat_set_entry, fat_find_free_cluster,       *)
(* make_dos_name, fat16_write_file, fat16_read_file) over the sector shim  *)
(* read_sector / write_sector.                                             *)
(*                                                                         *)
(* Representation.  The volume is a function from LBA to sector contents.  *)
(* A sector is 512 bytes; it is stored as the sequence of its bytes with   *)
(* the trailing zero bytes elided, and Byte(buf, i) reads 0 past the       *)
(* stored length.  Every sector value is kept in that canonical form, so   *)
(* equal sector contents are equal values.  Offsets are 0-based as in C.   *)
(* C strings are sequences of character codes; reading at or past the end  *)
(* yields the terminating NUL.                                             *)
(***************************************************************************)
EXTENDS Integers, Sequences, FiniteSets, TLC

(***************************************************************************)
(* Filesystem parameters (kernel.c:311-319)                                *)
(***************************************************************************)
SECTOR_SIZE == 512
TOTAL_SECTORS == 512
BYTES_PER_SECTOR == 512
SECTORS_PER_CLUSTER == 1
RESERVED_SECTORS == 1
NUM_FATS == 2
ROOT_DIR_ENTRIES == 512
SECTORS_PER_FAT == 4

\* uint16_t arithmetic is taken modulo U16; uint32_t/size_t values stay far below
\* 2^31 here (a cluster number is below 2^16, a sector number below 2^17)
U16 == 65536

root_dir_sectors == ((ROOT_DIR_ENTRIES * 32) + (BYTES_PER_SECTOR - 1)) \div BYTES_PER_SECTOR

first_data_sector == RESERVED_SECTORS + (NUM_FATS * SECTORS_PER_FAT) + root_dir_sectors

first_fat_sector == RESERVED_SECTORS

(***************************************************************************)
(* Sector buffers (uint8_t buf[SECTOR_SIZE])                               *)
(***************************************************************************)
ZeroSector == << >>

Byte(buf, i) == IF i < Len(buf) THEN buf[i + 1] ELSE 0

\* number of bytes of buf[0 .. n-1] up to and including the last non-zero one
TrimLen(buf, n) ==
    IF \A k \in 1..n : buf[k] = 0 THEN 0
    ELSE CHOOSE m \in 1..n : buf[m] # 0 /\ \A k \in (m + 1)..n : buf[k] = 0

\* the canonical form of a buffer: trailing zero bytes elided
Trim(buf) == SubSeq(buf, 1, TrimLen(buf, Len(buf)))

Max(a, b) == IF a >= b THEN a ELSE b

\* buf[off + k] = bytes[k + 1] for k = 0 .. Len(bytes) - 1
SetBytes(buf, off, bytes) ==
    Trim([k \in 1..Max(Len(buf), off + Len(bytes)) |->
             IF k > off /\ k <= off + Len(bytes) THEN bytes[k - off] ELSE Byte(buf, k - 1)])

\* buf[i] = v
SetByte(buf, i, v) == SetBytes(buf, i, <<v>>)

(***************************************************************************)
(* Block device (kernel.c:158-302).  The drive d is a function: d[lba] is   *)
(* the contents of sector lba of the medium, and d[DriveCond] is the       *)
(* condition the drive is in: commands addressed to a sector in bad fail,  *)
(* a read at its rstage-th status wait and a write at its wstage-th one    *)
(* (stage 0: that kind of command does not fail).  A wait fails when the   *)
(* poll budget runs out or the drive raises ERR.                           *)
(***************************************************************************)
DriveCond == -1

Healthy == [bad |-> {}, rstage |-> 0, wstage |-> 0, landed |-> FALSE]

\* result of the k-th ata_wait call of a read ("rd") or write ("wr") of lba
ata_wait(d, op, lba, k) ==
    IF lba \in d[DriveCond].bad
          /\ k = (IF op = "rd" THEN d[DriveCond].rstage ELSE d[DriveCond].wstage)
    THEN -1 ELSE 0

\* I/O ports in the order ata_read_sector touches them up to and including its
\* k-th ata_wait; a polling loop, the four reads of io_wait and the 256-word
\* transfer are one entry each (0x1F7 status/command, 0x1F6 drive/head, 0x3F6
\* control, 0x1F2 count, 0x1F3..0x1F5 LBA, 0x1F0 data)
ReadPorts(k) ==
    IF k = 1 THEN <<503, 503>>
    ELSE IF k = 2 THEN <<503, 503, 502, 1014, 503, 498, 499, 500, 501, 1014, 503, 1014, 503>>
    ELSE <<503, 503, 502, 1014, 503, 498, 499, 500, 501, 1014, 503, 1014, 503, 496, 503>>

\* the same for ata_write_sector; its fourth wait follows the cache flush
WritePorts(k) ==
    IF k = 1 THEN <<503, 503>>
    ELSE IF k = 2 THEN <<503, 503, 502, 1014, 503, 498, 499, 500, 501, 1014, 503, 503>>
    ELSE IF k = 3 THEN <<503, 503, 502, 1014, 503, 498, 499, 500, 501, 1014, 503, 503, 496, 503>>
    ELSE <<503, 503, 502, 1014, 503, 498, 499, 500, 501, 1014, 503, 503, 496, 503, 503, 503>>

\* buf is the caller's buffer before the call; the 256 words are transferred
\* before the third wait, so a failure there leaves the sector data in it.
\* The drive holds TOTAL_SECTORS sectors (kernel.c:312) and answers a command
\* for a sector it does not have with ERR.
ReadFailsAt(d, lba) ==
    IF ata_wait(d, "rd", lba, 1) # 0 THEN 1
    ELSE IF lba >= TOTAL_SECTORS \/ ata_wait(d, "rd", lba, 2) # 0 THEN 2
    ELSE IF ata_wait(d, "rd", lba, 3) # 0 THEN 3
    ELSE 0

\* k: the number of the ata_wait call that failed, 0 when none did
ReadOutcome(d, lba, buf, k) ==
    [status |-> IF k = 0 THEN 0 ELSE -1,
     buf |-> IF k = 1 \/ k = 2 THEN buf ELSE d[lba],
     ports |-> ReadPorts(IF k = 0 THEN 3 ELSE k)]

ata_read_sector(d, lba, buf) ==
    IF lba > 268435455 THEN [status |-> -1, buf |-> buf, ports |-> << >>]
    ELSE LET k == ReadFailsAt(d, lba) IN ReadOutcome(d, lba, buf, k)

\* the drive has received the 256 words before the third wait; when that wait
\* or the one after the flush fails, landed tells whether they reached the medium
WriteFailsAt(d, lba) ==
    IF ata_wait(d, "wr", lba, 1) # 0 THEN 1
    ELSE IF lba >= TOTAL_SECTORS \/ ata_wait(d, "wr", lba, 2) # 0 THEN 2
    ELSE IF ata_wait(d, "wr", lba, 3) # 0 THEN 3
    ELSE IF ata_wait(d, "wr", lba, 4) # 0 THEN 4
    ELSE 0

\* k: the number of the ata_wait call that failed, 0 when none did
WriteOutcome(d, lba, buf, k) ==
    [status |-> IF k = 0 THEN 0 ELSE -1,
     disk |-> IF k = 1 \/ k = 2 \/ (k # 0 /\ ~d[DriveCond].landed) THEN d
              ELSE [d EXCEPT ![lba] = buf],
     ports |-> WritePorts(IF k = 0 THEN 4 ELSE k)]

ata_write_sector(d, lba, buf) ==
    IF lba > 268435455 THEN [status |-> -1, disk |-> d, ports |-> << >>]
    ELSE LET k == WriteFailsAt(d, lba) IN WriteOutcome(d, lba, buf, k)

(***************************************************************************)
(* Sector access shim (kernel.c:338-356)                                   *)
(***************************************************************************)
\* mutant: a failed device read leaves the buffer as the driver left it
read_sector_buf_KeepOnFailure(d, sec, buf) ==
    IF sec >= TOTAL_SECTORS THEN [buf |-> ZeroSector, ports |-> << >>]
    ELSE ata_read_sector(d, sec, buf)

\* read_sector(sec, buf): the buffer after the call and the ports touched
\* the buffer is cleared when the driver reported a failure
ZeroOnFailure(res) == IF res.status # 0 THEN [res EXCEPT !.buf = ZeroSector] ELSE res

read_sector_buf(d, sec, buf) ==
    IF sec >= TOTAL_SECTORS THEN [buf |-> ZeroSector, ports |-> << >>]
    ELSE ZeroOnFailure(ata_read_sector(d, sec, buf))

\* mutant: the bound check is missing
write_sector_ports_NoBound(d, sec, buf) ==
    ata_write_sector(d, sec, buf)

\* write_sector(sec, buf): the volume after the call and the ports touched;
\* the status of ata_write_sector is dropped
write_sector_ports(d, sec, buf) ==
    IF sec >= TOTAL_SECTORS THEN [disk |-> d, ports |-> << >>]
    ELSE ata_write_sector(d, sec, buf)

\* what a caller's local sector buffer holds before it is first filled
StaleBuf == [i \in 1..SECTOR_SIZE |-> 204]

\* the buffer a caller gets from read_sector(sec, its local buffer)
read_sector(d, sec) == read_sector_buf(d, sec, StaleBuf).buf

\* the volume after write_sector(sec, buf)
write_sector(d, sec, buf) == write_sector_ports(d, sec, buf).disk

(***************************************************************************)
(* fat16_init (kernel.c:359-440)                                           *)
(***************************************************************************)
OemName == <<65, 84, 65, 70, 65, 84, 49, 54>>                    \* "ATAFAT16"
VolumeLabel == <<65, 84, 65, 68, 73, 83, 75, 32, 32, 32, 32>>    \* "ATADISK    "
FsType == <<70, 65, 84, 49, 54, 32, 32, 32>>                     \* "FAT16   "

BootSector ==
    LET totsec16 == IF TOTAL_SECTORS <= 65535 THEN TOTAL_SECTORS % U16 ELSE 0
        b0  == SetBytes(ZeroSector, 0, <<235, 60, 144>>)
        b1  == SetBytes(b0, 3, OemName)
        b2  == SetBytes(b1, 11, <<BYTES_PER_SECTOR % 256, (BYTES_PER_SECTOR \div 256) % 256>>)
        b3  == SetByte(b2, 13, SECTORS_PER_CLUSTER)
        b4  == SetBytes(b3, 14, <<RESERVED_SECTORS % 256, (RESERVED_SECTORS \div 256) % 256>>)
        b5  == SetBytes(b4, 16, <<ROOT_DIR_ENTRIES % 256, (ROOT_DIR_ENTRIES \div 256) % 256>>)
        b6  == SetBytes(b5, 19, <<totsec16 % 256, (totsec16 \div 256) % 256>>)
        b7  == SetByte(b6, 21, 248)
        b8  == SetBytes(b7, 22, <<SECTORS_PER_FAT % 256, (SECTORS_PER_FAT \div 256) % 256>>)
        b9  == SetBytes(b8, 24, <<0, 0, 0, 0, 0, 0, 0, 0>>)
        b10 == SetByte(b9, 38, 41)
        b11 == SetBytes(b10, 43, VolumeLabel)
    IN  SetBytes(b11, 54, FsType)

\* the FAT sector image written for FAT sector s of both copies
FatSeed(s) == IF s = 0 THEN SetBytes(ZeroSector, 0, <<248, 255, 255, 255>>)
              ELSE ZeroSector

\* the second loop writes FatSeed(s) to sector s of every FAT copy; each
\* write_sector call changes the sector it addresses only
InitFats(d) ==
    [s \in DOMAIN d |->
        IF s >= first_fat_sector /\ s < first_fat_sector + NUM_FATS * SECTORS_PER_FAT
        THEN write_sector(d, s, FatSeed((s - first_fat_sector) % SECTORS_PER_FAT))[s]
        ELSE d[s]]

\* mutant: the sectors are not zeroed first
fat16_init_NoZero(d) ==
    InitFats(write_sector(d, 0, BootSector))

\* d is the volume before the call.  The first loop calls write_sector(s, zero)
\* for every sector s; each call changes sector s only
fat16_init(d) ==
    LET zeroed == [s \in DOMAIN d |->
                     IF s >= 0 /\ s < TOTAL_SECTORS THEN write_sector(d, s, ZeroSector)[s]
                     ELSE d[s]]
        booted == write_sector(zeroed, 0, BootSector)
    IN  InitFats(booted)

(***************************************************************************)
(* FAT table (kernel.c:443-514)                                            *)
(***************************************************************************)
fat_get_entry(d, cluster) ==
    LET fat_offset == cluster * 2
        sec == first_fat_sector + (fat_offset \div SECTOR_SIZE)
        off == fat_offset % SECTOR_SIZE
        secbuf == read_sector(d, sec)
    IN  IF off = SECTOR_SIZE - 1
        THEN (Byte(secbuf, off) + Byte(read_sector(d, sec + 1), 0) * 256) % U16
        ELSE (Byte(secbuf, off) + Byte(secbuf, off + 1) * 256) % U16

\* one pass of the "for copy" loop body of fat_set_entry
SetEntryCopy(d, sec, off, val, copy) ==
    LET secbuf == SetByte(read_sector(d, sec + copy * SECTORS_PER_FAT), off, val % 256)
    IN  IF off = SECTOR_SIZE - 1
        THEN LET d1 == write_sector(d, sec + copy * SECTORS_PER_FAT, secbuf)
                 nextsecbuf == SetByte(read_sector(d1, sec + 1 + copy * SECTORS_PER_FAT),
                                       0, (val \div 256) % 256)
             IN  write_sector(d1, sec + 1 + copy * SECTORS_PER_FAT, nextsecbuf)
        ELSE write_sector(d, sec + copy * SECTORS_PER_FAT,
                          SetByte(secbuf, off + 1, (val \div 256) % 256))

\* mutant: only the first FAT copy is updated
SetEntryLoop_FirstCopyOnly(d, sec, off, val, copy) ==
    IF copy >= 1 THEN d ELSE SetEntryCopy(d, sec, off, val, copy)

RECURSIVE SetEntryLoop(_, _, _, _, _)
SetEntryLoop(d, sec, off, val, copy) ==
    IF copy >= NUM_FATS THEN d
    ELSE SetEntryLoop(SetEntryCopy(d, sec, off, val, copy), sec, off, val, copy + 1)

fat_set_entry(d, cluster, val) ==
    LET fat_offset == cluster * 2
        sec == first_fat_sector + (fat_offset \div SECTOR_SIZE)
        off == fat_offset % SECTOR_SIZE
    IN  SetEntryLoop(d, sec, off, val, 0)

\* the sectors fat_set_entry(cluster, val) passes to write_sector
fat_set_entry_writes(cluster) ==
    LET fat_offset == cluster * 2
        sec == first_fat_sector + (fat_offset \div SECTOR_SIZE)
    IN  UNION {IF fat_offset % SECTOR_SIZE = SECTOR_SIZE - 1
               THEN {sec + copy * SECTORS_PER_FAT, sec + 1 + copy * SECTORS_PER_FAT}
               ELSE {sec + copy * SECTORS_PER_FAT} : copy \in 0..(NUM_FATS - 1)}

\* mutant: the cluster number is taken as a sector number of the volume
cluster_to_sector_FromZero(cluster) ==
    (cluster - 2) * SECTORS_PER_CLUSTER

cluster_to_sector(cluster) ==
    first_data_sector + (cluster - 2) * SECTORS_PER_CLUSTER

max_clusters == (TOTAL_SECTORS - first_data_sector) \div SECTORS_PER_CLUSTER

\* mutant: the scan runs one entry past the last data cluster
fat_find_free_cluster_PastEnd(d) ==
    IF \E c \in 2..(2 + max_clusters) : fat_get_entry(d, c) = 0
    THEN CHOOSE c \in 2..(2 + max_clusters) :
             /\ fat_get_entry(d, c) = 0
             /\ \A c2 \in 2..(c - 1) : fat_get_entry(d, c2) # 0
    ELSE -1

\* the for loop returns the first c of the range whose entry is 0x0000
fat_find_free_cluster(d) ==
    IF \E c \in 2..(2 + max_clusters - 1) : fat_get_entry(d, c) = 0
    THEN CHOOSE c \in 2..(2 + max_clusters - 1) :
             /\ fat_get_entry(d, c) = 0
             /\ \A c2 \in 2..(c - 1) : fat_get_entry(d, c2) # 0
    ELSE -1

(***************************************************************************)
(* make_dos_name (kernel.c:517-539)                                        *)
(***************************************************************************)
\* *in for in = str + p: the character at 0-based position p, NUL at the end
Ch(str, p) == IF p < Len(str) THEN str[p + 1] ELSE 0

Upper(c) == IF c >= 97 /\ c <= 122 THEN c - 32 ELSE c

\* first while loop: copies the name part; yields the output and the input position
RECURSIVE DosNamePart(_, _, _, _)
DosNamePart(str, p, j, out) ==
    IF Ch(str, p) # 0 /\ Ch(str, p) # 46 /\ j < 8
    THEN DosNamePart(str, p + 1, j + 1, [out EXCEPT ![j + 1] = Upper(Ch(str, p))])
    ELSE [out |-> out, p |-> p]

\* second while loop: copies the extension part
RECURSIVE DosExtPart(_, _, _, _)
DosExtPart(str, p, j, out) ==
    IF Ch(str, p) # 0 /\ j < 11
    THEN DosExtPart(str, p + 1, j + 1, [out EXCEPT ![j + 1] = Upper(Ch(str, p))])
    ELSE out

make_dos_name(str) ==
    LET a == DosNamePart(str, 0, 0, <<32, 32, 32, 32, 32, 32, 32, 32, 32, 32, 32>>)
        p == IF Ch(str, a.p) = 46 THEN a.p + 1 ELSE a.p
    IN  DosExtPart(str, p, 8, a.out)

(***************************************************************************)
(* fat16_write_file (kernel.c:544-670)                                     *)
(***************************************************************************)
root_start == RESERVED_SECTORS + (NUM_FATS * SECTORS_PER_FAT)

\* mutant: only the three extension bytes are compared
NameMatch_ExtOnly(dirsec, off, dosname) ==
    \A k \in 8..10 : Byte(dirsec, off + k) = dosname[k + 1]

\* the 11-byte comparison of a directory slot with dosname
NameMatch(dirsec, off, dosname) ==
    \A k \in 0..10 : Byte(dirsec, off + k) = dosname[k + 1]

\* byte offsets of the 32-byte slots of a directory sector
SlotOffsets == {32 * k : k \in 0..((SECTOR_SIZE \div 32) - 1)}

Least(S) == CHOOSE x \in S : \A y \in S : x <= y

\* inner "for off" loop of the directory scan of fat16_write_file, entered at
\* slot offset off.  The loop goes through the slots in order and is left at
\* the first slot that is 0x00 (break) or that is neither 0x00 nor 0xE5 and
\* matches dosname (break after the match); a 0x00 or 0xE5 slot it visits sets
\* found_offset if that is still negative.
WScanSector(dirsec, dosname, s, off, found_offset) ==
    LET offs == {o \in SlotOffsets : o >= off}
        stops == {o \in offs : \/ Byte(dirsec, o) = 0
                               \/ Byte(dirsec, o) # 229 /\ NameMatch(dirsec, o, dosname)}
        stop == IF stops = {} THEN SECTOR_SIZE ELSE Least(stops)
        free == {o \in offs : o <= stop /\ Byte(dirsec, o) \in {0, 229}}
    IN  IF stop < SECTOR_SIZE /\ Byte(dirsec, stop) # 0
        THEN [found_offset |-> (s * SECTOR_SIZE) + stop,
              existing |-> (Byte(dirsec, stop + 26) + Byte(dirsec, stop + 27) * 256) % U16,
              matched |-> TRUE]
        ELSE [found_offset |-> IF found_offset < 0 /\ free # {}
                               THEN (s * SECTOR_SIZE) + Least(free) ELSE found_offset,
              existing |-> 0, matched |-> FALSE]

\* the inner loop on directory sector t, entered with found_offset = -1
WScanOf(d, dosname, t) == WScanSector(read_sector(d, root_start + t), dosname, t, 0, -1)

\* outer "for s" loop: a 0x00 slot leaves only the inner loop, a match leaves
\* both.  Without a match every sector is scanned, and found_offset is the
\* first one set.
WScan(d, dosname, s, found_offset) ==
    LET secs == s..(root_dir_sectors - 1)
        hits == {t \in secs : WScanOf(d, dosname, t).matched}
        free == {t \in secs : WScanOf(d, dosname, t).found_offset >= 0}
    IN  IF hits # {} THEN WScanOf(d, dosname, Least(hits))
        ELSE IF found_offset < 0 /\ free # {} THEN WScanOf(d, dosname, Least(free))
        ELSE [found_offset |-> found_offset, existing |-> 0, matched |-> FALSE]

\* mutant: only the first cluster of the old chain is freed
FreeChain_OnlyFirst(d, c) ==
    IF c >= 2 /\ c < 65528 THEN fat_set_entry(d, c, 0) ELSE d

\* "Free existing clusters" loop, entered with c = existing_start_cluster
RECURSIVE FreeChain(_, _)
FreeChain(d, c) ==
    IF c >= 2 /\ c < 65528
    THEN LET next == fat_get_entry(d, c)
             d1 == fat_set_entry(d, c, 0)
         IN  IF next >= 65528 THEN d1 ELSE FreeChain(d1, next)
    ELSE d

\* "while (remaining > 0)" loop and the end-of-chain mark that follows it;
\* ptr is the number of bytes of data already consumed
RECURSIVE AllocLoop(_, _, _, _, _, _)
AllocLoop(d, data, ptr, remaining, first_cluster, prev_cluster) ==
    IF remaining = 0
    THEN [ok |-> TRUE, first_cluster |-> first_cluster,
          disk |-> IF prev_cluster # 0 THEN fat_set_entry(d, prev_cluster, 65535) ELSE d]
    ELSE LET c == fat_find_free_cluster(d)
         IN  IF c < 0
             THEN [ok |-> FALSE, first_cluster |-> first_cluster, disk |-> d]
             ELSE LET d1 == IF prev_cluster # 0 THEN fat_set_entry(d, prev_cluster, c) ELSE d
                      tocopy == IF remaining > SECTOR_SIZE THEN SECTOR_SIZE ELSE remaining
                      secbuf == Trim(SubSeq(data, ptr + 1, ptr + tocopy))
                      d2 == write_sector(d1, cluster_to_sector(c), secbuf)
                  IN  AllocLoop(d2, data, ptr + tocopy, remaining - tocopy,
                                IF first_cluster = 0 THEN c ELSE first_cluster, c)

\* mutant: the entry is stored in a fresh zero buffer instead of the sector read
WriteDirEntry_FreshSector(d, found_offset, dosname, first_cluster, len) ==
    LET sidx == found_offset \div SECTOR_SIZE
        off == found_offset % SECTOR_SIZE
        s1 == SetBytes(ZeroSector, off, dosname)
        s2 == SetBytes(s1, off + 11, <<32, 0, 0, 0, 0, 0, 0>>)
        s3 == SetBytes(s2, off + 26, <<first_cluster % 256, (first_cluster \div 256) % 256>>)
        s4 == SetBytes(s3, off + 28, <<len % 256, (len \div 256) % 256,
                                       (len \div 65536) % 256, (len \div 16777216) % 256>>)
    IN  write_sector(d, root_start + sidx, s4)

\* "Update the directory entry" (kernel.c:639-667)
WriteDirEntry(d, found_offset, dosname, first_cluster, len) ==
    LET sidx == found_offset \div SECTOR_SIZE
        off == found_offset % SECTOR_SIZE
        s0 == read_sector(d, root_start + sidx)
        s1 == SetBytes(s0, off, dosname)
        s2 == SetBytes(s1, off + 11, <<32, 0, 0, 0, 0, 0, 0>>)
        s3 == SetBytes(s2, off + 26, <<first_cluster % 256, (first_cluster \div 256) % 256>>)
        s4 == SetBytes(s3, off + 28, <<len % 256, (len \div 256) % 256,
                                       (len \div 65536) % 256, (len \div 16777216) % 256>>)
    IN  write_sector(d, root_start + sidx, s4)

\* mutant: the directory entry is written even when the allocation failed
fat16_write_file_EntryOnFailure(d, name, data) ==
    LET dosname == make_dos_name(name)
        scan == WScan(d, dosname, 0, -1)
        d1 == IF scan.existing >= 2 THEN FreeChain(d, scan.existing) ELSE d
        a == IF Len(data) > 0 THEN AllocLoop(d1, data, 0, Len(data), 0, 0)
             ELSE [ok |-> TRUE, first_cluster |-> 0, disk |-> d1]
    IN  IF scan.found_offset < 0 THEN [disk |-> a.disk, ret |-> -1, site |-> "dir_full"]
        ELSE [disk |-> WriteDirEntry(a.disk, scan.found_offset, dosname,
                                     a.first_cluster, Len(data)),
              ret |-> IF a.ok THEN 0 ELSE -1,
              site |-> IF a.ok THEN "ok" ELSE "disk_full"]

\* mutant: the "found_offset < 0" check before the directory update is missing
fat16_write_file_NoSlotCheck(d, name, data) ==
    LET dosname == make_dos_name(name)
        scan == WScan(d, dosname, 0, -1)
        d1 == IF scan.existing >= 2 THEN FreeChain(d, scan.existing) ELSE d
        a == IF Len(data) > 0 THEN AllocLoop(d1, data, 0, Len(data), 0, 0)
             ELSE [ok |-> TRUE, first_cluster |-> 0, disk |-> d1]
    IN  IF ~a.ok THEN [disk |-> a.disk, ret |-> -1, site |-> "disk_full"]
        ELSE IF scan.found_offset < 0 THEN [disk |-> a.disk, ret |-> 0, site |-> "ok"]
        ELSE [disk |-> WriteDirEntry(a.disk, scan.found_offset, dosname,
                                     a.first_cluster, Len(data)),
              ret |-> 0, site |-> "ok"]

\* mutant: first_cluster starts as existing_start_cluster instead of 0
fat16_write_file_KeepsStart(d, name, data) ==
    LET dosname == make_dos_name(name)
        scan == WScan(d, dosname, 0, -1)
        d1 == IF scan.existing >= 2 THEN FreeChain(d, scan.existing) ELSE d
        a == IF Len(data) > 0 THEN AllocLoop(d1, data, 0, Len(data), scan.existing, 0)
             ELSE [ok |-> TRUE, first_cluster |-> scan.existing, disk |-> d1]
    IN  IF ~a.ok THEN [disk |-> a.disk, ret |-> -1, site |-> "disk_full"]
        ELSE IF scan.found_offset < 0 THEN [disk |-> a.disk, ret |-> -1, site |-> "dir_full"]
        ELSE [disk |-> WriteDirEntry(a.disk, scan.found_offset, dosname,
                                     a.first_cluster, Len(data)),
              ret |-> 0, site |-> "ok"]

\* result: the volume after the call, the return value, and the return
\* statement taken ("disk_full" kernel.c:608, "dir_full" kernel.c:637, "ok" kernel.c:669)
fat16_write_file(d, name, data) ==
    LET dosname == make_dos_name(name)
        scan == WScan(d, dosname, 0, -1)
        d1 == IF scan.existing >= 2 THEN FreeChain(d, scan.existing) ELSE d
        a == IF Len(data) > 0 THEN AllocLoop(d1, data, 0, Len(data), 0, 0)
             ELSE [ok |-> TRUE, first_cluster |-> 0, disk |-> d1]
    IN  IF ~a.ok THEN [disk |-> a.disk, ret |-> -1, site |-> "disk_full"]
        ELSE IF scan.found_offset < 0 THEN [disk |-> a.disk, ret |-> -1, site |-> "dir_full"]
        ELSE [disk |-> WriteDirEntry(a.disk, scan.found_offset, dosname,
                                     a.first_cluster, Len(data)),
              ret |-> 0, site |-> "ok"]

(***************************************************************************)
(* fat16_read_file (kernel.c:675-748)                                      *)
(***************************************************************************)
\* inner "for off" loop of the directory search: offset of the match, or -1
RScanSector(dirsec, dosname, off) ==
    LET hits == {o \in SlotOffsets : /\ o >= off
                                     /\ Byte(dirsec, o) \notin {0, 229}
                                     /\ NameMatch(dirsec, o, dosname)}
    IN  IF hits = {} THEN -1 ELSE Least(hits)

\* the inner loop on directory sector t
RScanOf(d, dosname, t) == RScanSector(read_sector(d, root_start + t), dosname, 0)

\* outer "for s" loop: sector index and offset of the match, or s = -1
RScan(d, dosname, s) ==
    LET hits == {t \in s..(root_dir_sectors - 1) : RScanOf(d, dosname, t) >= 0}
    IN  IF hits = {} THEN [s |-> -1, off |-> -1]
        ELSE [s |-> Least(hits), off |-> RScanOf(d, dosname, Least(hits))]

\* the sectors fat_get_entry(cluster) passes to read_sector
fat_get_entry_reads(cluster) ==
    LET fat_offset == cluster * 2
        sec == first_fat_sector + (fat_offset \div SECTOR_SIZE)
    IN  IF fat_offset % SECTOR_SIZE = SECTOR_SIZE - 1 THEN {sec, sec + 1} ELSE {sec}

\* "Follow the cluster chain" loop.  out maps each buffer index written so
\* far to the byte stored there; rd is the set of sectors read so far
RECURSIVE ReadLoop(_, _, _, _, _, _)
ReadLoop(d, c, got, toread, out, rd) ==
    IF c >= 2 /\ got < toread
    THEN LET secbuf == read_sector(d, cluster_to_sector(c))
             copy == IF toread - got > SECTOR_SIZE THEN SECTOR_SIZE ELSE toread - got
             out1 == [i \in (DOMAIN out) \cup (got..(got + copy - 1)) |->
                        IF i >= got /\ i < got + copy THEN Byte(secbuf, i - got) ELSE out[i]]
             next == fat_get_entry(d, c)
             rd1 == rd \cup {cluster_to_sector(c)} \cup fat_get_entry_reads(c)
         IN  IF next >= 65528 THEN [got |-> got + copy, out |-> out1, rd |-> rd1]
             ELSE ReadLoop(d, next, got + copy, toread, out1, rd1)
    ELSE [got |-> got, out |-> out, rd |-> rd]

EmptyOut == [i \in {} |-> 0]

\* result: the return value, the buffer positions written, the sectors read
fat16_read_file(d, name, maxlen) ==
    LET dosname == make_dos_name(name)
        m == RScan(d, dosname, 0)
    IN  IF m.s < 0
        THEN [ret |-> -1, out |-> EmptyOut,
              rd |-> {root_start + s : s \in 0..(root_dir_sectors - 1)}]
        ELSE LET dirsec == read_sector(d, root_start + m.s)
                 start_cluster == (Byte(dirsec, m.off + 26) + Byte(dirsec, m.off + 27) * 256) % U16
                 file_size == Byte(dirsec, m.off + 28) + Byte(dirsec, m.off + 29) * 256
                              + Byte(dirsec, m.off + 30) * 65536
                              + Byte(dirsec, m.off + 31) * 16777216
                 toread == IF file_size < maxlen THEN file_size ELSE maxlen
                 dirrd == {root_start + s : s \in 0..m.s}
             IN  IF file_size = 0 THEN [ret |-> 0, out |-> EmptyOut, rd |-> dirrd]
                 ELSE LET l == ReadLoop(d, start_cluster, 0, toread, EmptyOut, dirrd)
                      IN  [ret |-> l.got, out |-> l.out, rd |-> l.rd]

(***************************************************************************)
(* Callers.  The editor passes a NUL-terminated name typed at its prompt   *)
(* and a byte buffer (editor.c:569-580); the model draws both from small   *)
(* sets.                                                                   *)
(***************************************************************************)
Name_a_txt == <<97, 46, 116, 120, 116>>                                    \* "a.txt"
Name_A_TXT == <<65, 46, 84, 88, 84>>                                       \* "A.TXT"
Name_b == <<98>>                                                           \* "b"
Name_missing_txt == <<109, 105, 115, 115, 105, 110, 103, 46, 116, 120, 116>>  \* "missing.txt"

Names == {Name_a_txt, Name_A_TXT, Name_b}
ReadNames == {Name_a_txt, Name_b, Name_missing_txt}

\* a byte sequence of the given length; the bytes of consecutive sectors differ
DataBytes(seed, len) == [i \in 1..len |-> (seed + 7 * i) % 251]

Datas == {DataBytes(1, 0), DataBytes(1, 1), DataBytes(1, 512), DataBytes(2, 600),
          DataBytes(3, 1025)}

MaxLens == {0, 100, 2000}

MaxOps == 2

NoWrite == [name |-> << >>, data |-> << >>, ret |-> 0, site |-> "none"]
NoRead == [name |-> << >>, maxlen |-> 0, ret |-> 0, out |-> EmptyOut, rd |-> {}, site |-> "none"]

VARIABLES
    disk,     \* the drive: LBA -> sector contents, and its condition
    pre,      \* the volume as it was when the last fat16_write_file call began
    w,        \* the last fat16_write_file call: arguments, return value, return site
    r,        \* the fat16_read_file call made since then, if any
    nops,     \* number of fat16_write_file calls since fat16_init
    failed,   \* whether any of them returned failure
    io,       \* the last read_sector / write_sector call made on its own
    ata,      \* the ata_read_sector / ata_write_sector call in progress, statement by statement
    loop,     \* the fat16_write_file / fat16_read_file call in progress, one loop pass at a time
    pc,       \* kernel_main: index of its next statement (0: kernel_main is not running)
    kbd,      \* kernel.c statics shift_down, ctrl_down
    ed,       \* editor.c statics
    hist,     \* what edit_buf held after each edit made since editor_start
    calc,     \* calc.c statics
    call,     \* the last handle_scancode / editor_handle_scancode call
    boots,    \* number of restarts of the machine
    saved     \* the last file written with success before the latest restart

vars == <<disk, pre, w, r, nops, failed, io, ata, loop, pc, kbd, ed, hist, calc, call, boots, saved>>

\* the variables of the sector layer and of the kernel proper
kvars == <<io, ata, loop, pc, kbd, ed, hist, calc, call, boots, saved>>

NoIo == [op |-> "none", sec |-> 0, arg |-> << >>, buf |-> << >>, ports |-> << >>]

\* no driver call is being followed statement by statement
AtaIdle ==
    [fn |-> "none", lba |-> 0, pos |-> 0, ret |-> 1, i |-> 0, reads |-> 0, want_drq |-> 0,
     st |-> 0, wait |-> "none", words |-> 0, log |-> << >>]
\* no edit history is kept
NoHist == [texts |-> << >>, at |-> 0, base |-> 0, tracked |-> FALSE]

\* no file call is being followed pass by pass
LoopIdle ==
    [fn |-> "none", phase |-> "idle", name |-> << >>, data |-> << >>, c |-> 0, ptr |-> 0,
     remaining |-> 0, first_cluster |-> 0, prev_cluster |-> 0, found_offset |-> -1,
     got |-> 0, toread |-> 0, maxlen |-> 0, ret |-> 0, odd |-> FALSE, wr |-> {}]
NoCall == [fn |-> "none", ret |-> 0, was_active |-> 0, quit |-> FALSE, fat |-> "none", pc |-> 0]
NoFile == [name |-> << >>, data |-> << >>, valid |-> FALSE]

\* zero-initialised statics of editor.c (editor.c:17-68).  edit_len is the
\* length of edit_buf; oob records that edit_len was decremented at zero or
\* that edit_buf was indexed at EDIT_BUF_SIZE or beyond
EditorStatics ==
    [editor_active |-> 0, edit_buf |-> << >>, edit_cursor |-> 0, view_offset |-> 0,
     prompt_mode |-> 0, prompt_buf |-> << >>, shift_down |-> 0, ctrl_down |-> 0,
     callbacks |-> FALSE, maps |-> FALSE, undo_stack |-> << >>, redo_stack |-> << >>,
     oob |-> FALSE]

\* zero-initialised statics of kernel.c
KernelStatics == [shift_down |-> 0, ctrl_down |-> 0]

\* zero-initialised statics of calc.c (calc.c:23-35); input is input_buffer up
\* to input_pos
CalcStatics ==
    [active |-> 0, input |-> << >>, shift_down |-> 0, ctrl_down |-> 0,
     callbacks |-> FALSE, maps |-> FALSE]

\* the filesystem is exercised directly: no kernel_main, no editor
KernelOff ==
    /\ io = NoIo
    /\ ata = AtaIdle
    /\ loop = LoopIdle
    /\ pc = 0
    /\ kbd = KernelStatics
    /\ ed = EditorStatics
    /\ hist = NoHist
    /\ calc = CalcStatics
    /\ call = NoCall
    /\ boots = 0
    /\ saved = NoFile

\* a working drive with an all-zero medium
BlankDisk == [s \in DriveCond..(TOTAL_SECTORS - 1) |-> IF s = DriveCond THEN Healthy ELSE ZeroSector]

\* kernel_main formats the volume before the editor can call in (kernel.c:920)
Init ==
    /\ disk = fat16_init(BlankDisk)
    /\ pre = disk
    /\ w = NoWrite
    /\ r = NoRead
    /\ nops = 0
    /\ failed = FALSE
    /\ KernelOff

\* res is the result of the call fat16_write_file(name, data) on the current volume
WriteReturns(name, data, res) ==
    /\ disk' = res.disk
    /\ pre' = disk
    /\ w' = [name |-> name, data |-> data, ret |-> res.ret, site |-> res.site]
    /\ failed' = (failed \/ res.ret # 0)
    /\ r' = NoRead
    /\ nops' = nops + 1

WriteFile(names, datas) ==
    /\ nops < MaxOps
    /\ \E name \in names, data \in datas :
         WriteReturns(name, data, fat16_write_file(disk, name, data))
    /\ UNCHANGED kvars

\* res is the result of the call fat16_read_file(name, buffer, maxlen)
ReadReturns(name, maxlen, res) ==
    /\ r' = [name |-> name, maxlen |-> maxlen, ret |-> res.ret, out |-> res.out,
              rd |-> res.rd, site |-> "called"]
    /\ UNCHANGED <<disk, pre, w, nops, failed>>

\* a read does not change the volume; the model records one read per write
ReadFile(names, maxlens) ==
    /\ r.site = "none"
    /\ \E name \in names, maxlen \in maxlens \cup {Len(w.data)} :
         ReadReturns(name, maxlen, fat16_read_file(disk, name, maxlen))
    /\ UNCHANGED kvars

Next ==
    \/ WriteFile(Names, Datas)
    \/ ReadFile(ReadNames, MaxLens)

Spec == Init /\ [][Next]_vars

(***************************************************************************)
(* Nearly full volumes.  All are reached from the formatted volume by      *)
(* fat16_write_file calls alone: FillClusters one-byte files (one cluster  *)
(* each), FillEntries empty files (one directory slot each), or an empty   *)
(* file in every one of the ROOT_DIR_ENTRIES slots.  The formatted volume  *)
(* itself is the fourth starting point.                                    *)
(***************************************************************************)
FillClusters == 470
FillEntries == 511

\* "F000", "F001", ...
FillName(i) == <<70, 48 + ((i \div 100) % 10), 48 + ((i \div 10) % 10), 48 + (i % 10)>>

\* fat16_write_file(FillName(i), data) for i = lo .. hi in turn, stopping at the
\* first call that fails; the range is split in halves to keep the evaluation shallow
RECURSIVE FillRange(_, _, _, _)
FillRange(d, lo, hi, data) ==
    IF lo > hi THEN [disk |-> d, ret |-> 0]
    ELSE IF lo = hi
    THEN fat16_write_file(d, FillName(lo), data)
    ELSE LET mid == (lo + hi) \div 2
             left == FillRange(d, lo, mid, data)
         IN  IF left.ret # 0 THEN left ELSE FillRange(left.disk, mid + 1, hi, data)

\* <<number of files, length of each>> of the four starting volumes
FillCases == {<<0, 0>>, <<FillClusters, 1>>, <<FillEntries, 0>>, <<ROOT_DIR_ENTRIES, 0>>}

\* the formatted volume after fill[1] files of fill[2] bytes were written
FilledVolume(fill) == FillRange(fat16_init(BlankDisk), 1, fill[1], DataBytes(1, fill[2])).disk

InitFull ==
    /\ disk \in {FilledVolume(fill) : fill \in FillCases}
    /\ pre = disk
    /\ w = NoWrite
    /\ r = NoRead
    /\ nops = 0
    /\ failed = FALSE
    /\ KernelOff

NamesFull == {Name_a_txt, Name_b, FillName(1)}
DatasFull == {DataBytes(1, 0), DataBytes(1, 1), DataBytes(3, 1025)}
ReadNamesFull == {Name_a_txt, Name_missing_txt}
MaxLensFull == {100}

NextFull ==
    \/ WriteFile(NamesFull, DatasFull)
    \/ ReadFile(ReadNamesFull, MaxLensFull)

SpecFull == InitFull /\ [][NextFull]_vars

(***************************************************************************)
(* The FAT table on its own (kernel.c:443-514): fat_set_entry and          *)
(* fat_find_free_cluster are called directly on a working drive, starting  *)
(* from the formatted volume and from the nearly full ones.                *)
(***************************************************************************)
\* cluster numbers whose entry lies inside one FAT copy (SECTORS_PER_FAT sectors
\* of 256 entries): the reserved ones, the first and last of a FAT sector, the
\* last data cluster, the first entry past it and the last entry of the copy
FatClusters == {0, 2, 255, 256, 2 + max_clusters - 1, 2 + max_clusters, 1023}

\* free, end of chain, a link, and a value with two different bytes
FatValues == {0, 65535, 3, 4660}

InitFat ==
    /\ disk \in {FilledVolume(fill) : fill \in FillCases}
    /\ pre = disk
    /\ w = NoWrite
    /\ r = NoRead
    /\ nops = 0
    /\ failed = FALSE
    /\ KernelOff

\* number of fat_set_entry calls made in a row
MaxFatOps == 1

\* fat_set_entry(cluster, val)
FatSetEntry ==
    /\ nops < MaxFatOps
    /\ \E cluster \in FatClusters, val \in FatValues :
         /\ disk' = fat_set_entry(disk, cluster, val)
         /\ io' = [op |-> "fat_set_entry", sec |-> cluster, arg |-> <<val>>,
                   buf |-> << >>, ports |-> << >>]
    /\ pre' = disk
    /\ nops' = nops + 1
    /\ UNCHANGED <<w, r, failed, ata, loop, pc, kbd, ed, hist, calc, call, boots, saved>>

\* fat_find_free_cluster(): the return value is recorded in io.sec
FatFindFreeCluster ==
    /\ io.op # "fat_find_free_cluster"
    /\ io' = [op |-> "fat_find_free_cluster", sec |-> fat_find_free_cluster(disk),
              arg |-> << >>, buf |-> << >>, ports |-> << >>]
    /\ UNCHANGED <<disk, pre, w, r, nops, failed, ata, loop, pc, kbd, ed, hist, calc, call, boots, saved>>

NextFat ==
    \/ FatSetEntry
    \/ FatFindFreeCluster

SpecFat == InitFat /\ [][NextFat]_vars

(***************************************************************************)
(* A drive that fails.  The medium arrives with contents of its own: a     *)
(* root directory [A.TXT, B, never-used, MISSING.TXT] in its first sector  *)
(* and [GHOST] in its second, and non-zero bytes in every other sector.    *)
(* fat16_init runs on it while the drive is in one of AtaConditions; a     *)
(* sector whose zeroing write fails keeps what it held.  The condition of  *)
(* the drive can change between two calls.                                 *)
(***************************************************************************)
Name_ghost == <<103, 104, 111, 115, 116>>                                  \* "ghost"

\* a 32-byte directory entry as an earlier owner of the medium left it, with
\* the time and date of the last write in bytes 22-25 (12:00:00, 1 Jan 2000)
PriorEntry(name, cluster, size) ==
    make_dos_name(name) \o <<32, 0, 0, 0, 0, 0, 0, 0, 0, 0, 0, 0, 96, 33, 40>>
        \o <<cluster % 256, cluster \div 256>>
        \o <<size % 256, (size \div 256) % 256, (size \div 65536) % 256, size \div 16777216>>

PriorDisk(cond) ==
    [s \in DriveCond..(TOTAL_SECTORS - 1) |->
        IF s = DriveCond THEN cond
        ELSE IF s = root_start
        THEN PriorEntry(Name_a_txt, 0, 0) \o PriorEntry(Name_b, 0, 0)
                 \o [k \in 1..32 |-> 0] \o PriorEntry(Name_missing_txt, 2, 5)
        ELSE IF s = root_start + 1 THEN PriorEntry(Name_ghost, 3, 7)
        ELSE <<170, 85, (s % 251) + 1>>]

AtaConditions ==
    {Healthy,
     [bad |-> {root_start, root_start + 1}, rstage |-> 0, wstage |-> 2, landed |-> FALSE],
     [bad |-> {root_start}, rstage |-> 2, wstage |-> 0, landed |-> FALSE],
     [bad |-> {first_data_sector}, rstage |-> 3, wstage |-> 3, landed |-> FALSE]}

NamesAta == {Name_b, Name_ghost, Name_missing_txt}
DatasAta == {DataBytes(1, 0), DataBytes(1, 1)}
ReadNamesAta == {Name_missing_txt, Name_ghost}
MaxLensAta == {100}

InitAta ==
    /\ disk \in {fat16_init(PriorDisk(c)) : c \in AtaConditions}
    /\ pre = disk
    /\ w = NoWrite
    /\ r = NoRead
    /\ nops = 0
    /\ failed = FALSE
    /\ KernelOff

\* the drive recovers or degrades between two filesystem calls
DeviceChange ==
    /\ \E c \in AtaConditions : c # disk[DriveCond] /\ disk' = [disk EXCEPT ![DriveCond] = c]
    /\ w' = NoWrite
    /\ r' = NoRead
    /\ UNCHANGED <<pre, nops, failed>>
    /\ UNCHANGED kvars

NextAta ==
    \/ WriteFile(NamesAta, DatasAta)
    \/ ReadFile(ReadNamesAta, MaxLensAta)
    \/ DeviceChange

SpecAta == InitAta /\ [][NextAta]_vars

(***************************************************************************)
(* The checked sector layer on its own (kernel.c:338-356): read_sector and *)
(* write_sector are called with sector numbers inside and outside the      *)
(* volume, on a medium that holds data, while the drive is in one of       *)
(* ShimConditions.  Each condition fails the commands for one sector at    *)
(* one of the waits of the protocol.                                       *)
(***************************************************************************)
ShimConditions ==
    {Healthy,
     [bad |-> {root_start}, rstage |-> 1, wstage |-> 1, landed |-> FALSE],
     [bad |-> {root_start}, rstage |-> 2, wstage |-> 2, landed |-> FALSE],
     [bad |-> {root_start}, rstage |-> 3, wstage |-> 3, landed |-> TRUE],
     [bad |-> {root_start}, rstage |-> 3, wstage |-> 4, landed |-> FALSE]}

\* sector numbers passed by the caller: the last sectors of the volume, the
\* first ones past its end, and the largest 32-bit value the model can hold
ShimSectors == {root_start, TOTAL_SECTORS - 1, TOTAL_SECTORS, TOTAL_SECTORS + 1, 2147483647}

\* caller's buffers: what the buffer holds before a read, what a write passes
ShimBuffers == {StaleBuf, <<1, 2, 3>>}

InitShim ==
    /\ disk \in {PriorDisk(c) : c \in ShimConditions}
    /\ pre = disk
    /\ w = NoWrite
    /\ r = NoRead
    /\ nops = 0
    /\ failed = FALSE
    /\ KernelOff

\* read_sector(sec, buf)
ReadSector ==
    /\ \E sec \in ShimSectors, buf \in ShimBuffers :
         LET res == read_sector_buf(disk, sec, buf)
         IN  io' = [op |-> "read_sector", sec |-> sec, arg |-> buf,
                    buf |-> res.buf, ports |-> res.ports]
    /\ pre' = disk
    /\ UNCHANGED <<disk, w, r, nops, failed, ata, loop, pc, kbd, ed, hist, calc, call, boots, saved>>

\* write_sector(sec, buf)
WriteSector ==
    /\ \E sec \in ShimSectors, buf \in ShimBuffers :
         LET res == write_sector_ports(disk, sec, buf)
         IN  /\ disk' = res.disk
             /\ io' = [op |-> "write_sector", sec |-> sec, arg |-> buf,
                       buf |-> buf, ports |-> res.ports]
    /\ pre' = disk
    /\ UNCHANGED <<w, r, nops, failed, ata, loop, pc, kbd, ed, hist, calc, call, boots, saved>>

NextShim ==
    \/ ReadSector
    \/ WriteSector

SpecShim == InitShim /\ [][NextShim]_vars

(***************************************************************************)
(* The editor (editor.c).  A character is its ASCII code.  edit_buf holds  *)
(* the edit_len live characters of the text, prompt_buf the prompt_len     *)
(* characters of the file name; the screen is not modelled, so a callback  *)
(* that draws is recorded only as "a callback was invoked".                *)
(***************************************************************************)
VGA_WIDTH == 80
VGA_HEIGHT == 25
EDIT_BUF_SIZE == VGA_WIDTH * (VGA_HEIGHT - 3)
UNDO_STACK_SIZE == 512
PROMPT_BUF_SIZE == 32
PROMPT_NONE == 0
PROMPT_SAVE == 1
PROMPT_OPEN == 2

\* normal_map / shift_map as scancode_map_init of editor.c fills them
editor_normal_map ==
    [s \in 0..255 |->
        CASE s = 2 -> 49 [] s = 3 -> 50 [] s = 4 -> 51 [] s = 5 -> 52 [] s = 6 -> 53
          [] s = 7 -> 54 [] s = 8 -> 55 [] s = 9 -> 56 [] s = 10 -> 57 [] s = 11 -> 48
          [] s = 12 -> 45 [] s = 13 -> 61 [] s = 14 -> 8 [] s = 16 -> 113 [] s = 17 -> 119
          [] s = 18 -> 101 [] s = 19 -> 114 [] s = 20 -> 116 [] s = 21 -> 121 [] s = 22 -> 117
          [] s = 23 -> 105 [] s = 24 -> 111 [] s = 25 -> 112 [] s = 28 -> 10 [] s = 30 -> 97
          [] s = 31 -> 115 [] s = 32 -> 100 [] s = 33 -> 102 [] s = 34 -> 103 [] s = 35 -> 104
          [] s = 36 -> 106 [] s = 37 -> 107 [] s = 38 -> 108 [] s = 39 -> 59 [] s = 40 -> 39
          [] s = 41 -> 96 [] s = 43 -> 92 [] s = 44 -> 122 [] s = 45 -> 120 [] s = 46 -> 99
          [] s = 47 -> 118 [] s = 48 -> 98 [] s = 49 -> 110 [] s = 50 -> 109 [] s = 51 -> 44
          [] s = 52 -> 46 [] s = 53 -> 47 [] s = 57 -> 32
          [] OTHER -> 0]

editor_shift_map ==
    [s \in 0..255 |->
        CASE s = 2 -> 33 [] s = 3 -> 64 [] s = 4 -> 35 [] s = 5 -> 36 [] s = 6 -> 37
          [] s = 7 -> 94 [] s = 8 -> 38 [] s = 9 -> 42 [] s = 10 -> 40 [] s = 11 -> 41
          [] s = 12 -> 95 [] s = 13 -> 43 [] s = 16 -> 81 [] s = 17 -> 87 [] s = 18 -> 69
          [] s = 19 -> 82 [] s = 20 -> 84 [] s = 21 -> 89 [] s = 22 -> 85 [] s = 23 -> 73
          [] s = 24 -> 79 [] s = 25 -> 80 [] s = 30 -> 65 [] s = 31 -> 83 [] s = 32 -> 68
          [] s = 33 -> 70 [] s = 34 -> 71 [] s = 35 -> 72 [] s = 36 -> 74 [] s = 37 -> 75
          [] s = 38 -> 76 [] s = 39 -> 58 [] s = 40 -> 34 [] s = 41 -> 126 [] s = 43 -> 124
          [] s = 44 -> 90 [] s = 45 -> 88 [] s = 46 -> 67 [] s = 47 -> 86 [] s = 48 -> 66
          [] s = 49 -> 78 [] s = 50 -> 77 [] s = 51 -> 60 [] s = 52 -> 62 [] s = 53 -> 63
          [] OTHER -> 0]

\* row and column of buffer position pos (the loop runs from i with r, c)
RECURSIVE calc_cursor_pos(_, _, _, _, _)
calc_cursor_pos(buf, pos, i, r0, c0) ==
    IF i < pos /\ i < Len(buf)
    THEN IF buf[i + 1] = 10 THEN calc_cursor_pos(buf, pos, i + 1, r0 + 1, 0)
         ELSE IF c0 + 1 >= VGA_WIDTH THEN calc_cursor_pos(buf, pos, i + 1, r0 + 1, 0)
         ELSE calc_cursor_pos(buf, pos, i + 1, r0, c0 + 1)
    ELSE [row |-> r0, col |-> c0]

\* first while loop of adjust_view: scroll down
RECURSIVE ScrollDown(_, _, _, _)
ScrollDown(buf, cr, vr, vo) ==
    IF cr >= vr + (VGA_HEIGHT - 3) /\ vo < Len(buf)
    THEN ScrollDown(buf, cr, IF buf[vo + 1] = 10 THEN vr + 1 ELSE vr, vo + 1)
    ELSE [vr |-> vr, vo |-> vo]

\* second while loop of adjust_view: scroll up
RECURSIVE ScrollUp(_, _, _, _)
ScrollUp(buf, cr, vr, vo) ==
    IF cr < vr /\ vo > 0
    THEN ScrollUp(buf, cr, IF buf[vo] = 10 THEN vr - 1 ELSE vr, vo - 1)
    ELSE vo

adjust_view(e) ==
    LET cr == calc_cursor_pos(e.edit_buf, e.edit_cursor, 0, 0, 0).row
        vr == calc_cursor_pos(e.edit_buf, e.view_offset, 0, 0, 0).row
        dn == ScrollDown(e.edit_buf, cr, vr, e.view_offset)
    IN  [e EXCEPT !.view_offset = ScrollUp(e.edit_buf, cr, dn.vr, dn.vo)]

move_left(e) == IF e.edit_cursor > 0 THEN [e EXCEPT !.edit_cursor = @ - 1] ELSE e

move_right(e) == IF e.edit_cursor < Len(e.edit_buf) THEN [e EXCEPT !.edit_cursor = @ + 1] ELSE e

RECURSIVE line_start(_, _)
line_start(buf, pos) == IF pos > 0 /\ buf[pos] # 10 THEN line_start(buf, pos - 1) ELSE pos

column_at(buf, pos) == pos - line_start(buf, pos)

RECURSIVE NextNewline(_, _)
NextNewline(buf, pos) == IF pos < Len(buf) /\ buf[pos + 1] # 10 THEN NextNewline(buf, pos + 1) ELSE pos

next_line_start(buf, pos) ==
    LET q == NextNewline(buf, pos) IN IF q < Len(buf) THEN q + 1 ELSE Len(buf)

\* "don't land on the newline character" loop of move_up / move_down
RECURSIVE BackOverNewlines(_, _, _)
BackOverNewlines(buf, offset, low) ==
    IF offset > low /\ buf[offset] = 10 THEN BackOverNewlines(buf, offset - 1, low) ELSE offset

move_up(e) ==
    LET buf == e.edit_buf
        col == column_at(buf, e.edit_cursor)
        start == line_start(buf, e.edit_cursor)
    IN  IF start = 0 THEN e
        ELSE LET prev == line_start(buf, start - 1)
                 offset == IF prev + col > Len(buf) THEN Len(buf) ELSE prev + col
             IN  [e EXCEPT !.edit_cursor = BackOverNewlines(buf, offset, prev)]

move_down(e) ==
    LET buf == e.edit_buf
        col == column_at(buf, e.edit_cursor)
        next == next_line_start(buf, e.edit_cursor)
    IN  IF next >= Len(buf) THEN e
        ELSE LET target == IF next + col > Len(buf) THEN Len(buf) ELSE next + col
             IN  [e EXCEPT !.edit_cursor = BackOverNewlines(buf, target, next)]

undo_push(stack, a) == IF Len(stack) < UNDO_STACK_SIZE THEN Append(stack, a) ELSE stack

\* "for (i = edit_len; i > pos; i--) edit_buf[i] = edit_buf[i-1]; edit_buf[pos] = c;
\* edit_len++": buf with character c inserted at position pos; with pos beyond
\* edit_len the byte at edit_len is what was there
InsertAt(buf, pos, c) ==
    [i \in 1..(Len(buf) + 1) |-> IF i - 1 = pos THEN c
                                 ELSE IF i - 1 > pos THEN buf[i - 1]
                                 ELSE Byte(buf, i - 1)]

\* "for (i = pos; i < edit_len - 1; i++) edit_buf[i] = edit_buf[i+1]; edit_len--"
\* on a text that is not empty: buf with the character at pos removed
RemoveAt(buf, pos) ==
    [i \in 1..(Len(buf) - 1) |-> IF i - 1 >= pos THEN buf[i + 1] ELSE buf[i]]

editor_insert_char(e, c) ==
    IF Len(e.edit_buf) + 1 >= EDIT_BUF_SIZE THEN e
    ELSE [e EXCEPT !.edit_buf = InsertAt(@, e.edit_cursor, c),
                   !.undo_stack = undo_push(@, [type |-> "ACT_INSERT", pos |-> e.edit_cursor, ch |-> c]),
                   !.redo_stack = << >>,
                   !.edit_cursor = @ + 1]

editor_backspace(e) ==
    IF e.edit_cursor = 0 THEN e
    ELSE IF Len(e.edit_buf) = 0 THEN [e EXCEPT !.oob = TRUE]
    ELSE [e EXCEPT !.edit_buf = RemoveAt(@, e.edit_cursor - 1),
                   !.undo_stack = undo_push(@, [type |-> "ACT_DELETE", pos |-> e.edit_cursor - 1,
                                                ch |-> Byte(e.edit_buf, e.edit_cursor - 1)]),
                   !.redo_stack = << >>,
                   !.edit_cursor = @ - 1]

start_prompt(e, m) == [e EXCEPT !.prompt_mode = m, !.prompt_buf = << >>]

\* the name finish_prompt passes: prompt_buf up to its terminating NUL
PromptName(e) ==
    SubSeq(e.prompt_buf, 1, IF Len(e.prompt_buf) < PROMPT_BUF_SIZE - 1 THEN Len(e.prompt_buf)
                            ELSE PROMPT_BUF_SIZE - 1)

\* edit_buf[0 .. n-1] after fat_read stored the bytes "out" in it
LoadedText(old, out, n) ==
    [i \in 1..n |-> IF (i - 1) \in DOMAIN out THEN out[i - 1] ELSE Byte(old, i - 1)]

\* the PROMPT_OPEN branch of finish_prompt once callbacks.fat_read(prompt_buf,
\* edit_buf, EDIT_BUF_SIZE) has returned fr.ret and stored the bytes fr.out
AfterLoad(e, fr) ==
    IF fr.ret >= 0
    THEN [e EXCEPT !.edit_buf = LoadedText(e.edit_buf, fr.out, fr.ret),
                   !.edit_cursor = fr.ret,
                   !.view_offset = 0]
    ELSE e

\* finish_prompt: the prompt is closed, and the result names the file callback
\* that is called on the way; what fat_read returns is applied by AfterLoad
finish_prompt(e) ==
    [ed |-> [e EXCEPT !.prompt_mode = PROMPT_NONE],
     fat |-> IF e.prompt_mode = PROMPT_SAVE THEN "fat_write"
             ELSE IF e.prompt_mode = PROMPT_OPEN THEN "fat_read"
             ELSE "none"]

\* the removing branch of do_undo / do_redo, the popped action already taken
\* off stack "from" and its inverse pushed on stack "to"
TakeOut(e, a, from, to) ==
    IF Len(e.edit_buf) = 0
    THEN [e EXCEPT ![from] = SubSeq(@, 1, Len(@) - 1), !.oob = TRUE]
    ELSE [e EXCEPT ![from] = SubSeq(@, 1, Len(@) - 1),
                   ![to] = undo_push(@, [type |-> a.type, pos |-> a.pos,
                                         ch |-> IF a.type = "ACT_INSERT" THEN a.ch
                                                ELSE Byte(e.edit_buf, a.pos)]),
                   !.edit_buf = RemoveAt(@, a.pos),
                   !.edit_cursor = IF @ > a.pos THEN @ - 1 ELSE @]

\* the re-inserting branch of do_undo / do_redo
PutBack(e, a, from, to) ==
    IF Len(e.edit_buf) >= EDIT_BUF_SIZE
    THEN [e EXCEPT ![from] = SubSeq(@, 1, Len(@) - 1), !.oob = TRUE]
    ELSE [e EXCEPT ![from] = SubSeq(@, 1, Len(@) - 1),
                   ![to] = undo_push(@, a),
                   !.edit_buf = InsertAt(@, a.pos, a.ch),
                   !.edit_cursor = IF @ >= a.pos THEN @ + 1 ELSE @]

do_undo(e) ==
    IF e.undo_stack = << >> THEN e
    ELSE LET a == e.undo_stack[Len(e.undo_stack)]
         IN  IF a.type = "ACT_INSERT" THEN TakeOut(e, a, "undo_stack", "redo_stack")
             ELSE PutBack(e, a, "undo_stack", "redo_stack")

do_redo(e) ==
    IF e.redo_stack = << >> THEN e
    ELSE LET a == e.redo_stack[Len(e.redo_stack)]
         IN  IF a.type = "ACT_INSERT" THEN PutBack(e, a, "redo_stack", "undo_stack")
             ELSE TakeOut(e, a, "redo_stack", "undo_stack")

\* Ctrl+Q, Ctrl+S, Ctrl+O, Ctrl+Z, Ctrl+Y
editor_handle_control(e, c) ==
    IF c = 113 \/ c = 81 THEN [e EXCEPT !.editor_active = 0, !.prompt_mode = PROMPT_NONE]
    ELSE IF c = 115 \/ c = 83 THEN start_prompt(e, PROMPT_SAVE)
    ELSE IF c = 111 \/ c = 79 THEN start_prompt(e, PROMPT_OPEN)
    ELSE IF c = 122 \/ c = 90 THEN adjust_view(do_undo(e))
    ELSE IF c = 121 \/ c = 89 THEN adjust_view(do_redo(e))
    ELSE e

editor_init(e) ==
    [e EXCEPT !.maps = TRUE, !.editor_active = 0, !.edit_buf = << >>, !.edit_cursor = 0,
              !.view_offset = 0, !.shift_down = 0, !.ctrl_down = 0,
              !.prompt_mode = PROMPT_NONE, !.undo_stack = << >>, !.redo_stack = << >>]

editor_set_callbacks(e) == [e EXCEPT !.callbacks = TRUE]

editor_start(e) ==
    [e EXCEPT !.editor_active = 1, !.edit_buf = << >>, !.edit_cursor = 0, !.view_offset = 0,
              !.prompt_mode = PROMPT_NONE, !.undo_stack = << >>, !.redo_stack = << >>]

\* what one call leaves: the statics, the return value, whether a screen or
\* message callback was invoked, and which file callback was
Handled(e, ret, cb, fat) == [ed |-> e, ret |-> ret, cb |-> cb, fat |-> fat]

RECURSIVE InsertSpaces(_, _)
InsertSpaces(e, n) == IF n = 0 THEN e ELSE InsertSpaces(editor_insert_char(e, 32), n - 1)

\* mutant: Ctrl+Q reports "still active"
editor_handle_scancode_QuitReturnsOne(e, s) ==
    LET c == IF ~e.maps THEN 0
             ELSE IF e.shift_down # 0 THEN editor_shift_map[s] ELSE editor_normal_map[s]
    IN  IF e.editor_active = 0 THEN Handled(e, 0, FALSE, "none")
        ELSE IF s = 42 \/ s = 54 THEN Handled([e EXCEPT !.shift_down = 1], 1, FALSE, "none")
        ELSE IF s = 170 \/ s = 182 THEN Handled([e EXCEPT !.shift_down = 0], 1, FALSE, "none")
        ELSE IF s = 29 THEN Handled([e EXCEPT !.ctrl_down = 1], 1, FALSE, "none")
        ELSE IF s = 157 THEN Handled([e EXCEPT !.ctrl_down = 0], 1, FALSE, "none")
        ELSE IF s >= 128 THEN Handled(e, 1, FALSE, "none")
        ELSE IF s = 75 THEN Handled(adjust_view(move_left(e)), 1, TRUE, "none")
        ELSE IF s = 77 THEN Handled(adjust_view(move_right(e)), 1, TRUE, "none")
        ELSE IF s = 72 THEN Handled(adjust_view(move_up(e)), 1, TRUE, "none")
        ELSE IF s = 80 THEN Handled(adjust_view(move_down(e)), 1, TRUE, "none")
        ELSE IF s = 15 THEN Handled(adjust_view(InsertSpaces(e, 4)), 1, TRUE, "none")
        ELSE IF e.prompt_mode # PROMPT_NONE
        THEN IF s = 14 /\ Len(e.prompt_buf) > 0
             THEN Handled([e EXCEPT !.prompt_buf = SubSeq(@, 1, Len(@) - 1)], 1, TRUE, "none")
             ELSE IF c = 10
             THEN LET f == finish_prompt(e) IN Handled(f.ed, 1, TRUE, f.fat)
             ELSE IF c # 0 /\ Len(e.prompt_buf) + 1 < PROMPT_BUF_SIZE
             THEN Handled([e EXCEPT !.prompt_buf = Append(@, c)], 1, TRUE, "none")
             ELSE Handled(e, 1, TRUE, "none")
        ELSE IF e.ctrl_down # 0 /\ c # 0
        THEN LET h == editor_handle_control(e, c) IN Handled(h, 1, TRUE, "none")
        ELSE IF c = 8 THEN Handled(adjust_view(editor_backspace(e)), 1, TRUE, "none")
        ELSE IF c # 0 THEN Handled(adjust_view(editor_insert_char(e, c)), 1, TRUE, "none")
        ELSE Handled(e, 1, FALSE, "none")

\* editor_handle_scancode(s), up to what a file callback stores and returns
editor_handle_scancode(e, s) ==
    LET c == IF ~e.maps THEN 0
             ELSE IF e.shift_down # 0 THEN editor_shift_map[s] ELSE editor_normal_map[s]
    IN  IF e.editor_active = 0 THEN Handled(e, 0, FALSE, "none")
        ELSE IF s = 42 \/ s = 54 THEN Handled([e EXCEPT !.shift_down = 1], 1, FALSE, "none")
        ELSE IF s = 170 \/ s = 182 THEN Handled([e EXCEPT !.shift_down = 0], 1, FALSE, "none")
        ELSE IF s = 29 THEN Handled([e EXCEPT !.ctrl_down = 1], 1, FALSE, "none")
        ELSE IF s = 157 THEN Handled([e EXCEPT !.ctrl_down = 0], 1, FALSE, "none")
        ELSE IF s >= 128 THEN Handled(e, 1, FALSE, "none")
        ELSE IF s = 75 THEN Handled(adjust_view(move_left(e)), 1, TRUE, "none")
        ELSE IF s = 77 THEN Handled(adjust_view(move_right(e)), 1, TRUE, "none")
        ELSE IF s = 72 THEN Handled(adjust_view(move_up(e)), 1, TRUE, "none")
        ELSE IF s = 80 THEN Handled(adjust_view(move_down(e)), 1, TRUE, "none")
        ELSE IF s = 15 THEN Handled(adjust_view(InsertSpaces(e, 4)), 1, TRUE, "none")
        ELSE IF e.prompt_mode # PROMPT_NONE
        THEN IF s = 14 /\ Len(e.prompt_buf) > 0
             THEN Handled([e EXCEPT !.prompt_buf = SubSeq(@, 1, Len(@) - 1)], 1, TRUE, "none")
             ELSE IF c = 10
             THEN LET f == finish_prompt(e) IN Handled(f.ed, 1, TRUE, f.fat)
             ELSE IF c # 0 /\ Len(e.prompt_buf) + 1 < PROMPT_BUF_SIZE
             THEN Handled([e EXCEPT !.prompt_buf = Append(@, c)], 1, TRUE, "none")
             ELSE Handled(e, 1, TRUE, "none")
        ELSE IF e.ctrl_down # 0 /\ c # 0
        THEN LET h == editor_handle_control(e, c) IN Handled(h, h.editor_active, TRUE, "none")
        ELSE IF c = 8 THEN Handled(adjust_view(editor_backspace(e)), 1, TRUE, "none")
        ELSE IF c # 0 THEN Handled(adjust_view(editor_insert_char(e, c)), 1, TRUE, "none")
        ELSE Handled(e, 1, FALSE, "none")

(***************************************************************************)
(* The editor called directly (editor.h): after editor_init and            *)
(* editor_set_callbacks on a formatted volume, editor_start and            *)
(* editor_handle_scancode are called in any order.                         *)
(***************************************************************************)
MaxUndo == 1      \* characters typed between two editor_start calls

\* the keys pressed keep the text and the file name within the given sets
Bounded(e, texts, names) ==
    /\ e.edit_buf \in texts
    /\ e.prompt_buf \in names
    /\ Len(e.undo_stack) <= MaxUndo

\* texts and file names typed when the editor is called directly: "" and "q"
EditorTexts == {<< >>, <<113>>}
EditorNames == {<< >>, <<113>>}

\* the file callbacks as kernel_main registers them (kernel.c:924-931), called
\* with the arguments finish_prompt passes
SaveReturns(e, name, res) ==
    /\ ed' = e
    /\ WriteReturns(name, e.edit_buf, res)

LoadReturns(e, name, res) ==
    /\ ed' = AfterLoad(e, res)
    /\ ReadReturns(name, EDIT_BUF_SIZE, res)

\* the handler has left the statics h.ed; the file callback it called on the
\* way, if any, runs the filesystem code
FileCallback(h) ==
    \/ /\ h.fat = "fat_write"
       /\ nops < MaxOps
       /\ SaveReturns(h.ed, PromptName(h.ed),
                       fat16_write_file(disk, PromptName(h.ed), h.ed.edit_buf))
    \/ /\ h.fat = "fat_read"
       /\ LoadReturns(h.ed, PromptName(h.ed),
                       fat16_read_file(disk, PromptName(h.ed), EDIT_BUF_SIZE))
    \/ /\ h.fat = "none"
       /\ ed' = h.ed
       /\ UNCHANGED <<disk, pre, w, r, nops, failed>>

FatFunction(h) ==
    IF h.fat = "fat_write" THEN "fat16_write_file"
    ELSE IF h.fat = "fat_read" THEN "fat16_read_file"
    ELSE "none"

\* scancode s, arriving with the statics e, is the Q of a Ctrl+Q typed outside a
\* file prompt
QuitKey(e, s) ==
    /\ e.editor_active # 0
    /\ e.prompt_mode = PROMPT_NONE
    /\ e.ctrl_down # 0
    /\ e.maps
    /\ (IF e.shift_down # 0 THEN editor_shift_map[s] ELSE editor_normal_map[s]) \in {113, 81}

\* Shift, Ctrl, a key release, the arrows, Backspace, q, s, o, z, y, Enter, F1
EditorScancodes == {42, 170, 29, 157, 144, 75, 77, 72, 80, 14, 16, 31, 24, 44, 21, 28, 59}

InitEditor ==
    /\ disk = fat16_init(BlankDisk)
    /\ pre = disk
    /\ w = NoWrite
    /\ r = NoRead
    /\ nops = 0
    /\ failed = FALSE
    /\ io = NoIo
    /\ ata = AtaIdle
    /\ loop = LoopIdle
    /\ pc = 0
    /\ kbd = KernelStatics
    /\ ed = editor_set_callbacks(editor_init(EditorStatics))
    /\ hist = NoHist
    /\ calc = CalcStatics
    /\ call = NoCall
    /\ boots = 0
    /\ saved = NoFile

EditorStart ==
    /\ ed.editor_active = 0
    /\ ed' = editor_start(ed)
    /\ call' = NoCall
    /\ UNCHANGED <<disk, pre, w, r, nops, failed, io, ata, loop, pc, kbd, hist, calc, boots, saved>>

\* a key is pressed; nothing is said of the machine once edit_buf has been
\* indexed out of bounds
EditorScancode ==
    /\ ~ed.oob
    /\ \E s \in EditorScancodes :
         LET h == editor_handle_scancode(ed, s)
         IN  /\ Bounded(h.ed, EditorTexts, EditorNames)
             /\ call' = [fn |-> "editor_handle_scancode", ret |-> h.ret,
                         was_active |-> ed.editor_active, quit |-> QuitKey(ed, s),
                         fat |-> FatFunction(h), pc |-> pc]
             /\ FileCallback(h)
    /\ UNCHANGED <<io, ata, loop, pc, kbd, hist, calc, boots, saved>>

NextEditor ==
    \/ EditorStart
    \/ EditorScancode

SpecEditor == InitEditor /\ [][NextEditor]_vars

(***************************************************************************)
(* Editing with undo and redo.  The editor is called directly as above;    *)
(* it starts either untouched or with UNDO_STACK_SIZE characters typed     *)
(* ahead (each followed by Left, so that the cursor stays at the top), the *)
(* keys pressed insert, delete, undo and redo, and hist follows what       *)
(* edit_buf held after each edit.                                          *)
(***************************************************************************)
MaxEdits == 2     \* edits followed beyond those typed ahead

\* Ctrl, the arrows Left and Right, Backspace, q, z, y
UndoScancodes == {29, 157, 75, 77, 14, 16, 44, 21}

\* scancode s, arriving with the statics e, is a Ctrl+key command for one of
\* the characters chars
ControlKey(e, s, chars) ==
    /\ e.editor_active # 0
    /\ e.prompt_mode = PROMPT_NONE
    /\ e.ctrl_down # 0
    /\ e.maps
    /\ (IF e.shift_down # 0 THEN editor_shift_map[s] ELSE editor_normal_map[s]) \in chars

\* the statics after n times "q, Left" typed into e (keys do nothing once the
\* editor is not active); the keys are split in halves to keep the evaluation shallow
RECURSIVE TypeAhead(_, _)
TypeAhead(e, n) ==
    IF n = 0 THEN e
    ELSE IF n = 1
    THEN LET typed == editor_handle_scancode(e, 16).ed
         IN  editor_handle_scancode(typed, 75).ed
    ELSE LET left == TypeAhead(e, n \div 2)
         IN  IF left.editor_active = 0 THEN left ELSE TypeAhead(left, n - (n \div 2))

\* the history when the editor has just started / has typed ahead the text buf
HistStarted == [texts |-> << << >> >>, at |-> 1, base |-> 0, tracked |-> TRUE]
HistAhead(buf, n) == [texts |-> <<buf>>, at |-> 1, base |-> n, tracked |-> TRUE]

\* the history h0 after scancode s, arriving with the statics e, was handled
\* and left the text buf: an undo steps back, a redo steps forward, an edit
\* cuts the undone texts off and adds the new one
Told(h0, e, s, buf) ==
    IF ControlKey(e, s, {122, 90}) THEN [h0 EXCEPT !.at = IF @ > 1 THEN @ - 1 ELSE @]
    ELSE IF ControlKey(e, s, {121, 89})
    THEN [h0 EXCEPT !.at = IF @ < Len(h0.texts) THEN @ + 1 ELSE @]
    ELSE IF e.editor_active # 0 /\ e.prompt_mode = PROMPT_NONE /\ buf # e.edit_buf
    THEN [h0 EXCEPT !.texts = Append(SubSeq(@, 1, h0.at), buf), !.at = @ + 1]
    ELSE h0

InitUndo ==
    /\ disk = fat16_init(BlankDisk)
    /\ pre = disk
    /\ w = NoWrite
    /\ r = NoRead
    /\ nops = 0
    /\ failed = FALSE
    /\ io = NoIo
    /\ ata = AtaIdle
    /\ loop = LoopIdle
    /\ pc = 0
    /\ kbd = KernelStatics
    /\ \E n \in {0, UNDO_STACK_SIZE} :
         LET fresh == editor_set_callbacks(editor_init(EditorStatics))
         IN  IF n = 0
             THEN ed = fresh /\ hist = NoHist
             ELSE /\ ed = TypeAhead(editor_start(fresh), n)
                  /\ hist = HistAhead(ed.edit_buf, n)
    /\ calc = CalcStatics
    /\ call = NoCall
    /\ boots = 0
    /\ saved = NoFile

UndoStart ==
    /\ ed.editor_active = 0
    /\ ed' = editor_start(ed)
    /\ hist' = HistStarted
    /\ call' = NoCall
    /\ UNCHANGED <<disk, pre, w, r, nops, failed, io, ata, loop, pc, kbd, calc, boots, saved>>

\* a key is pressed: the edits typed ahead are not undone, the cursor stays
\* within MaxEdits characters of the top, and the keys Z and Y are pressed with
\* Ctrl held down
UndoScancode ==
    /\ \E s \in UndoScancodes :
         LET h == editor_handle_scancode(ed, s)
         IN  /\ h.ed.edit_cursor <= MaxEdits
             /\ (s \in {44, 21}) => ed.ctrl_down # 0
             /\ ~(ControlKey(ed, s, {122, 90}) /\ hist.at = 1 /\ hist.base > 0)
             /\ call' = [fn |-> "editor_handle_scancode", ret |-> h.ret,
                         was_active |-> ed.editor_active, quit |-> QuitKey(ed, s),
                         fat |-> FatFunction(h), pc |-> pc]
             /\ FileCallback(h)
             /\ hist' = Told(hist, ed, s, ed'.edit_buf)
             /\ Len(hist'.texts) <= MaxEdits + 1
    /\ UNCHANGED <<io, ata, loop, pc, kbd, calc, boots, saved>>

NextUndo ==
    \/ UndoStart
    \/ UndoScancode

SpecUndo == InitUndo /\ [][NextUndo]_vars

(***************************************************************************)
(* The calculator (calc.c).  What it draws and the value it computes leave *)
(* no trace in its statics: Enter empties the input line.                  *)
(***************************************************************************)
INPUT_MAX == 256

\* normal_map / shift_map as init_scancode_map of calc.c fills them
calc_normal_map ==
    [s \in 0..255 |->
        CASE s = 2 -> 49 [] s = 3 -> 50 [] s = 4 -> 51 [] s = 5 -> 52 [] s = 6 -> 53
          [] s = 7 -> 54 [] s = 8 -> 55 [] s = 9 -> 56 [] s = 10 -> 57 [] s = 11 -> 48
          [] s = 12 -> 45 [] s = 13 -> 61 [] s = 28 -> 10 [] s = 57 -> 32 [] s = 14 -> 8
          [] s = 53 -> 47 [] s = 52 -> 46 [] s = 16 -> 113
          [] OTHER -> 0]

calc_shift_map ==
    [s \in 0..255 |->
        CASE s = 2 -> 33 [] s = 3 -> 64 [] s = 4 -> 35 [] s = 5 -> 36 [] s = 6 -> 37
          [] s = 7 -> 94 [] s = 8 -> 38 [] s = 9 -> 42 [] s = 10 -> 40 [] s = 11 -> 41
          [] s = 12 -> 95 [] s = 13 -> 43 [] s = 53 -> 63 [] s = 52 -> 62 [] s = 16 -> 81
          [] OTHER -> 0]

calc_init(a) == [a EXCEPT !.maps = TRUE, !.active = 0]

calc_set_callbacks(a) == [a EXCEPT !.callbacks = TRUE]

calc_start(a) ==
    [a EXCEPT !.active = 1, !.input = << >>, !.shift_down = 0, !.ctrl_down = 0]

\* the characters the input line takes: digits, + - * / ( ) space and .
CalcChars == (48..57) \cup {43, 45, 42, 47, 40, 41, 32, 46}

\* calc_handle_scancode(s): the statics it leaves, the value it returns and
\* whether a screen callback was invoked
calc_handle_scancode(a, s) ==
    LET c == IF ~a.maps THEN 0
             ELSE IF a.shift_down # 0 THEN calc_shift_map[s] ELSE calc_normal_map[s]
        Done(a1, ret, cb) == [calc |-> a1, ret |-> ret, cb |-> cb]
    IN  IF s = 42 \/ s = 54 THEN Done([a EXCEPT !.shift_down = 1], 1, FALSE)
        ELSE IF s = 170 \/ s = 182 THEN Done([a EXCEPT !.shift_down = 0], 1, FALSE)
        ELSE IF s = 29 THEN Done([a EXCEPT !.ctrl_down = 1], 1, FALSE)
        ELSE IF s = 157 THEN Done([a EXCEPT !.ctrl_down = 0], 1, FALSE)
        ELSE IF s >= 128 THEN Done(a, 1, FALSE)
        ELSE IF a.ctrl_down # 0 /\ (c = 113 \/ c = 81) THEN Done([a EXCEPT !.active = 0], 0, TRUE)
        ELSE IF a.ctrl_down # 0 THEN Done(a, 1, FALSE)
        ELSE IF c = 8
        THEN IF Len(a.input) > 0
             THEN Done([a EXCEPT !.input = SubSeq(@, 1, Len(@) - 1)], 1, TRUE)
             ELSE Done(a, 1, FALSE)
        ELSE IF c = 10 THEN Done([a EXCEPT !.input = << >>], 1, TRUE)
        ELSE IF c # 0 /\ Len(a.input) < INPUT_MAX - 1 /\ c \in CalcChars
        THEN Done([a EXCEPT !.input = Append(@, c)], 1, TRUE)
        ELSE Done(a, 1, FALSE)

(***************************************************************************)
(* The kernel (kernel.c:829-945).  kernel_main runs its statements in      *)
(* order; once init_idt64 has returned, a keyboard interrupt can arrive    *)
(* between any two of them and runs handle_scancode to completion.  The    *)
(* machine can be restarted at any time: kernel_main starts again with the *)
(* statics of the image and the drive as it is.                            *)
(***************************************************************************)
\* normal_map / shift_map as scancode_map_init of kernel.c fills them
normal_map ==
    [s \in 0..255 |->
        CASE s = 2 -> 49 [] s = 3 -> 50 [] s = 4 -> 51 [] s = 5 -> 52 [] s = 6 -> 53
          [] s = 7 -> 54 [] s = 8 -> 55 [] s = 9 -> 56 [] s = 10 -> 57 [] s = 11 -> 48
          [] s = 12 -> 45 [] s = 13 -> 61 [] s = 14 -> 8 [] s = 16 -> 113 [] s = 17 -> 119
          [] s = 18 -> 101 [] s = 19 -> 114 [] s = 20 -> 116 [] s = 21 -> 121 [] s = 22 -> 117
          [] s = 23 -> 105 [] s = 24 -> 111 [] s = 25 -> 112 [] s = 28 -> 10 [] s = 30 -> 97
          [] s = 31 -> 115 [] s = 32 -> 100 [] s = 33 -> 102 [] s = 34 -> 103 [] s = 35 -> 104
          [] s = 36 -> 106 [] s = 37 -> 107 [] s = 38 -> 108 [] s = 39 -> 59 [] s = 40 -> 39
          [] s = 41 -> 96 [] s = 43 -> 92 [] s = 44 -> 122 [] s = 45 -> 120 [] s = 46 -> 99
          [] s = 47 -> 118 [] s = 48 -> 98 [] s = 49 -> 110 [] s = 50 -> 109 [] s = 51 -> 44
          [] s = 52 -> 46 [] s = 53 -> 47 [] s = 57 -> 32
          [] OTHER -> 0]

shift_map ==
    [s \in 0..255 |->
        CASE s = 2 -> 33 [] s = 3 -> 64 [] s = 4 -> 35 [] s = 5 -> 59 [] s = 6 -> 37
          [] s = 7 -> 94 [] s = 8 -> 38 [] s = 9 -> 42 [] s = 10 -> 40 [] s = 11 -> 41
          [] s = 12 -> 95 [] s = 13 -> 43 [] s = 16 -> 81 [] s = 17 -> 87 [] s = 18 -> 69
          [] s = 19 -> 82 [] s = 20 -> 84 [] s = 21 -> 89 [] s = 22 -> 85 [] s = 23 -> 73
          [] s = 24 -> 79 [] s = 25 -> 80 [] s = 30 -> 65 [] s = 31 -> 83 [] s = 32 -> 68
          [] s = 33 -> 70 [] s = 34 -> 71 [] s = 35 -> 72 [] s = 36 -> 74 [] s = 37 -> 75
          [] s = 38 -> 76 [] s = 39 -> 58 [] s = 40 -> 34 [] s = 41 -> 126 [] s = 43 -> 124
          [] s = 44 -> 90 [] s = 45 -> 88 [] s = 46 -> 67 [] s = 47 -> 86 [] s = 48 -> 66
          [] s = 49 -> 78 [] s = 50 -> 77 [] s = 51 -> 60 [] s = 52 -> 62 [] s = 53 -> 63
          [] OTHER -> 0]

\* mutant: the editor gets its callbacks before the volume is formatted
kernel_main_CallbacksFirst ==
    <<"init_idt64", "ata_select_drive", "editor_init", "editor_set_callbacks",
      "fat16_init", "fat16_init_returns", "calc_init", "calc_set_callbacks">>

\* the statements of kernel_main that matter, in order; fat16_init is entered
\* and left in two steps
kernel_main ==
    <<"init_idt64", "ata_select_drive", "fat16_init", "fat16_init_returns",
      "editor_init", "editor_set_callbacks", "calc_init", "calc_set_callbacks">>

Fault == -1

\* statement st has been executed when kernel_main is at p
Executed(st, p) == \E j \in 1..Len(kernel_main) : j < p /\ kernel_main[j] = st

\* the ISR is installed and interrupts are enabled when init_idt64 returns
InterruptsEnabled == pc # Fault /\ Executed("init_idt64", pc)

\* mutant: the calculator is not asked whether it is active
handle_scancode_NoCalcCheck(k, e, a, s) ==
    LET c == IF k.shift_down # 0 THEN shift_map[s] ELSE normal_map[s]
        kernel(k1, e1, a1, cb, fn, put) ==
            [kbd |-> k1, ed |-> e1, calc |-> a1, ret |-> -1, cb |-> cb, fat |-> "none",
             fn |-> fn, put |-> put]
    IN  IF FALSE
        THEN LET h == calc_handle_scancode(a, s)
             IN  [kbd |-> k, ed |-> e, calc |-> h.calc, ret |-> h.ret, cb |-> h.cb,
                  fat |-> "none", fn |-> "calc_handle_scancode", put |-> 0]
        ELSE IF e.editor_active # 0
        THEN LET h == editor_handle_scancode(e, s)
             IN  [kbd |-> k, ed |-> h.ed, calc |-> a, ret |-> h.ret, cb |-> h.cb,
                  fat |-> h.fat, fn |-> "editor_handle_scancode", put |-> 0]
        ELSE IF s = 42 \/ s = 54
        THEN kernel([k EXCEPT !.shift_down = 1], e, a, FALSE, "handle_scancode", 0)
        ELSE IF s = 170 \/ s = 182
        THEN kernel([k EXCEPT !.shift_down = 0], e, a, FALSE, "handle_scancode", 0)
        ELSE IF s = 29 THEN kernel([k EXCEPT !.ctrl_down = 1], e, a, FALSE, "handle_scancode", 0)
        ELSE IF s = 157 THEN kernel([k EXCEPT !.ctrl_down = 0], e, a, FALSE, "handle_scancode", 0)
        ELSE IF s >= 128 THEN kernel(k, e, a, FALSE, "handle_scancode", 0)
        ELSE IF k.ctrl_down # 0 /\ (c = 101 \/ c = 69)
        THEN kernel(k, editor_start(e), a, TRUE, "editor_start", 0)
        ELSE IF k.ctrl_down # 0 /\ (c = 99 \/ c = 67)
        THEN kernel(k, e, calc_start(a), TRUE, "calc_start", 0)
        ELSE IF k.ctrl_down # 0 THEN kernel(k, e, a, FALSE, "handle_scancode", 0)
        ELSE kernel(k, e, a, FALSE, "handle_scancode", c)

\* handle_scancode(s) with the statics k of kernel.c, e of editor.c and a of
\* calc.c.  fn names the function that consumed the key, put is the character
\* the kernel printed with kputchar (0: none)
handle_scancode(k, e, a, s) ==
    LET c == IF k.shift_down # 0 THEN shift_map[s] ELSE normal_map[s]
        kernel(k1, e1, a1, cb, fn, put) ==
            [kbd |-> k1, ed |-> e1, calc |-> a1, ret |-> -1, cb |-> cb, fat |-> "none",
             fn |-> fn, put |-> put]
    IN  IF a.active # 0
        THEN LET h == calc_handle_scancode(a, s)
             IN  [kbd |-> k, ed |-> e, calc |-> h.calc, ret |-> h.ret, cb |-> h.cb,
                  fat |-> "none", fn |-> "calc_handle_scancode", put |-> 0]
        ELSE IF e.editor_active # 0
        THEN LET h == editor_handle_scancode(e, s)
             IN  [kbd |-> k, ed |-> h.ed, calc |-> a, ret |-> h.ret, cb |-> h.cb,
                  fat |-> h.fat, fn |-> "editor_handle_scancode", put |-> 0]
        ELSE IF s = 42 \/ s = 54
        THEN kernel([k EXCEPT !.shift_down = 1], e, a, FALSE, "handle_scancode", 0)
        ELSE IF s = 170 \/ s = 182
        THEN kernel([k EXCEPT !.shift_down = 0], e, a, FALSE, "handle_scancode", 0)
        ELSE IF s = 29 THEN kernel([k EXCEPT !.ctrl_down = 1], e, a, FALSE, "handle_scancode", 0)
        ELSE IF s = 157 THEN kernel([k EXCEPT !.ctrl_down = 0], e, a, FALSE, "handle_scancode", 0)
        ELSE IF s >= 128 THEN kernel(k, e, a, FALSE, "handle_scancode", 0)
        ELSE IF k.ctrl_down # 0 /\ (c = 101 \/ c = 69)
        THEN kernel(k, editor_start(e), a, TRUE, "editor_start", 0)
        ELSE IF k.ctrl_down # 0 /\ (c = 99 \/ c = 67)
        THEN kernel(k, e, calc_start(a), TRUE, "calc_start", 0)
        ELSE IF k.ctrl_down # 0 THEN kernel(k, e, a, FALSE, "handle_scancode", 0)
        ELSE kernel(k, e, a, FALSE, "handle_scancode", c)

\* Ctrl, e, s, o, Enter
KernelScancodes == {29, 157, 18, 31, 24, 28}

\* texts and file names typed: "" and "e"
KernelTexts == {<< >>, <<101>>}
KernelNames == {<< >>, <<101>>}

MaxBoots == 1

\* media the machine is first started on, and the drive's condition (it no
\* longer changes)
InitKernel ==
    /\ disk \in {PriorDisk(Healthy),
                 PriorDisk([bad |-> {root_start, root_start + 1}, rstage |-> 0, wstage |-> 2,
                            landed |-> FALSE])}
    /\ pre = disk
    /\ w = NoWrite
    /\ r = NoRead
    /\ nops = 0
    /\ failed = FALSE
    /\ io = NoIo
    /\ ata = AtaIdle
    /\ loop = LoopIdle
    /\ pc = 1
    /\ kbd = KernelStatics
    /\ ed = EditorStatics
    /\ hist = NoHist
    /\ calc = CalcStatics
    /\ call = NoCall
    /\ boots = 0
    /\ saved = NoFile

\* the next statement of kernel_main
KernelMain ==
    /\ pc \in 1..Len(kernel_main)
    /\ pc' = pc + 1
    /\ disk' = IF kernel_main[pc] = "fat16_init_returns" THEN fat16_init(disk) ELSE disk
    /\ ed' = IF kernel_main[pc] = "editor_init" THEN editor_init(ed)
             ELSE IF kernel_main[pc] = "editor_set_callbacks" THEN editor_set_callbacks(ed)
             ELSE ed
    /\ calc' = IF kernel_main[pc] = "calc_init" THEN calc_init(calc)
               ELSE IF kernel_main[pc] = "calc_set_callbacks" THEN calc_set_callbacks(calc)
               ELSE calc
    /\ UNCHANGED <<pre, w, r, nops, failed, io, ata, loop, kbd, hist, call, boots, saved>>

\* a key arrives (none of the keys pressed here starts the calculator).  With
\* the callbacks registered the handler runs as written.  Before that the
\* members of "callbacks" are null pointers: a call through one is undefined;
\* it either stops the machine with a fault or comes back, a file callback
\* with some return value, and none has run filesystem code
KeyboardInterrupt ==
    /\ InterruptsEnabled
    /\ \E s \in KernelScancodes :
         IF ed.callbacks
         THEN LET h == handle_scancode(kbd, ed, calc, s)
              IN  /\ Bounded(h.ed, KernelTexts, KernelNames)
                  /\ kbd' = h.kbd
                  /\ calc' = h.calc
                  /\ call' = [fn |-> h.fn, ret |-> h.ret,
                              was_active |-> ed.editor_active, quit |-> QuitKey(ed, s),
                              fat |-> FatFunction(h), pc |-> pc]
                  /\ FileCallback(h)
                  /\ pc' = pc
         ELSE \E garbage \in {-1, 0}, fault \in BOOLEAN :
                LET h == handle_scancode(kbd, ed, calc, s)
                IN  /\ Bounded(h.ed, KernelTexts, KernelNames)
                    /\ calc' = h.calc
                    /\ fault => (h.cb \/ h.fat # "none")
                    /\ (h.fat # "fat_read") => garbage = 0
                    /\ ed' = IF h.fat = "fat_read"
                              THEN AfterLoad(h.ed, [ret |-> garbage, out |-> EmptyOut])
                              ELSE h.ed
                    /\ kbd' = h.kbd
                    /\ call' = [fn |-> h.fn, ret |-> h.ret,
                                was_active |-> ed.editor_active, quit |-> QuitKey(ed, s),
                                fat |-> "none", pc |-> pc]
                    /\ pc' = IF fault THEN Fault ELSE pc
                    /\ UNCHANGED <<disk, pre, w, r, nops, failed>>
    /\ UNCHANGED <<io, ata, loop, hist, boots, saved>>

\* reset or power cycle: the image is loaded again, the drive keeps its sectors
Restart ==
    /\ boots < MaxBoots
    /\ boots' = boots + 1
    /\ pc' = 1
    /\ kbd' = KernelStatics
    /\ ed' = EditorStatics
    /\ calc' = CalcStatics
    /\ call' = NoCall
    /\ saved' = IF w.site # "none" /\ w.ret = 0
                THEN [name |-> w.name, data |-> w.data, valid |-> TRUE]
                ELSE NoFile
    /\ w' = NoWrite
    /\ r' = NoRead
    /\ UNCHANGED <<disk, pre, nops, failed, io, ata, loop, hist>>

NextKernel ==
    \/ KernelMain
    \/ KeyboardInterrupt
    \/ Restart

SpecKernel == InitKernel /\ [][NextKernel]_vars

(***************************************************************************)
(* The three keyboard modes.  kernel_main has reached its hlt loop on a    *)
(* blank drive; every key is delivered to handle_scancode.                 *)
(***************************************************************************)
MaxInput == 1     \* characters on the calculator's input line

\* Ctrl, e, c, q, 1, Backspace, Enter
ModeScancodes == {29, 157, 18, 46, 16, 2, 14, 28}

\* texts typed in the editor: "", "e", "c", "q", "1"
ModeTexts == {<< >>, <<101>>, <<99>>, <<113>>, <<49>>}

InitModes ==
    /\ disk = fat16_init(BlankDisk)
    /\ pre = disk
    /\ w = NoWrite
    /\ r = NoRead
    /\ nops = 0
    /\ failed = FALSE
    /\ io = NoIo
    /\ ata = AtaIdle
    /\ loop = LoopIdle
    /\ pc = Len(kernel_main) + 1
    /\ kbd = KernelStatics
    /\ ed = editor_set_callbacks(editor_init(EditorStatics))
    /\ hist = NoHist
    /\ calc = calc_set_callbacks(calc_init(CalcStatics))
    /\ call = NoCall
    /\ boots = 0
    /\ saved = NoFile

ModeScancode ==
    /\ \E s \in ModeScancodes :
         LET h == handle_scancode(kbd, ed, calc, s)
         IN  /\ Bounded(h.ed, ModeTexts, {<< >>})
             /\ Len(h.calc.input) <= MaxInput
             /\ kbd' = h.kbd
             /\ calc' = h.calc
             /\ call' = [fn |-> h.fn, ret |-> h.ret, was_active |-> ed.editor_active,
                         quit |-> QuitKey(ed, s), fat |-> FatFunction(h), pc |-> pc,
                         put |-> h.put]
             /\ FileCallback(h)
    /\ UNCHANGED <<io, ata, loop, pc, hist, boots, saved>>

SpecModes == InitModes /\ [][ModeScancode]_vars

(***************************************************************************)
(* The ATA driver statement by statement (kernel.c:131-302).  The drive is  *)
(* whatever answers on the ports: every read of the status register yields *)
(* any of StatusValues.                                                    *)
(***************************************************************************)
ATA_DATA_PORT == 496
ATA_SECT_COUNT == 498
ATA_LBA_LOW == 499
ATA_LBA_MID == 500
ATA_LBA_HIGH == 501
ATA_DRIVE_HEAD == 502
ATA_STATUS == 503
ATA_COMMAND == 503
ATA_CONTROL == 1014
ATA_SR_BSY == 128
ATA_SR_DRQ == 8
ATA_SR_ERR == 1

\* st & m # 0, for a single-bit mask m
Bit(st, m) == (st \div m) % 2 = 1

\* number of iterations of the polling loop of ata_wait
PollBudget == 1000000

\* number of 16-bit words of a sector transfer
SectorWords == 256

\* largest LBA28 address
Lba28Max == 268435455

\* mutant: the busy bit is tested before the error bit
ata_wait_poll_BusyFirst(st, want_drq) ==
    IF Bit(st, ATA_SR_BSY) THEN "continue"
    ELSE IF Bit(st, ATA_SR_ERR) THEN "err"
    ELSE IF want_drq # 0
         THEN IF Bit(st, ATA_SR_DRQ) THEN "ok" ELSE "continue"
    ELSE "ok"

\* one iteration of the loop of ata_wait on the status st: return -1 ("err"),
\* return 0 ("ok") or go round again ("continue")
ata_wait_poll(st, want_drq) ==
    IF Bit(st, ATA_SR_ERR) THEN "err"
    ELSE IF Bit(st, ATA_SR_BSY) THEN "continue"
    ELSE IF want_drq # 0
         THEN IF Bit(st, ATA_SR_DRQ) THEN "ok" ELSE "continue"
    ELSE "ok"

Stmt(op, a, b) == [op |-> op, a |-> a, b |-> b]

\* the register writes that address sector lba (bits 24-27, count, bits 0-23)
ProgramLba(lba) ==
    <<Stmt("outb", ATA_DRIVE_HEAD, 224 + ((lba \div 16777216) % 16)),
      Stmt("io_wait", 0, 0),
      Stmt("inb", ATA_STATUS, 0),
      Stmt("outb", ATA_SECT_COUNT, 1),
      Stmt("outb", ATA_LBA_LOW, lba % 256),
      Stmt("outb", ATA_LBA_MID, (lba \div 256) % 256),
      Stmt("outb", ATA_LBA_HIGH, (lba \div 65536) % 256),
      Stmt("io_wait", 0, 0)>>

\* mutant: the command is issued before the LBA bytes are programmed
ata_read_sector_stmts_CommandEarly(lba) ==
    <<Stmt("check_lba", 0, 0), Stmt("inb", ATA_STATUS, 0), Stmt("ata_wait", 0, 0),
      Stmt("outb", ATA_DRIVE_HEAD, 224 + ((lba \div 16777216) % 16)),
      Stmt("outb", ATA_SECT_COUNT, 1),
      Stmt("outb", ATA_COMMAND, 32)>>
    \o <<Stmt("outb", ATA_LBA_LOW, lba % 256),
         Stmt("outb", ATA_LBA_MID, (lba \div 256) % 256),
         Stmt("outb", ATA_LBA_HIGH, (lba \div 65536) % 256),
         Stmt("io_wait", 0, 0), Stmt("ata_wait", 1, 0),
         Stmt("inw", ATA_DATA_PORT, SectorWords), Stmt("ata_wait", 0, 0), Stmt("return", 0, 0)>>

\* the statements of ata_read_sector(lba, buf) in program order; a failing
\* check_lba or ata_wait returns -1
ata_read_sector_stmts(lba) ==
    <<Stmt("check_lba", 0, 0), Stmt("inb", ATA_STATUS, 0), Stmt("ata_wait", 0, 0)>>
    \o ProgramLba(lba)
    \o <<Stmt("outb", ATA_COMMAND, 32), Stmt("io_wait", 0, 0), Stmt("ata_wait", 1, 0),
         Stmt("inw", ATA_DATA_PORT, SectorWords), Stmt("ata_wait", 0, 0), Stmt("return", 0, 0)>>

\* mutant: the cache is flushed right after the transfer, before the wait
ata_write_sector_stmts_FlushEarly(lba) ==
    <<Stmt("check_lba", 0, 0), Stmt("inb", ATA_STATUS, 0), Stmt("ata_wait", 0, 0)>>
    \o ProgramLba(lba)
    \o <<Stmt("outb", ATA_COMMAND, 48), Stmt("ata_wait", 1, 0),
         Stmt("outw", ATA_DATA_PORT, SectorWords), Stmt("outb", ATA_COMMAND, 231),
         Stmt("ata_wait", 0, 0), Stmt("ata_wait", 0, 0), Stmt("return", 0, 0)>>

\* the statements of ata_write_sector(lba, buf) in program order
ata_write_sector_stmts(lba) ==
    <<Stmt("check_lba", 0, 0), Stmt("inb", ATA_STATUS, 0), Stmt("ata_wait", 0, 0)>>
    \o ProgramLba(lba)
    \o <<Stmt("outb", ATA_COMMAND, 48), Stmt("ata_wait", 1, 0),
         Stmt("outw", ATA_DATA_PORT, SectorWords), Stmt("ata_wait", 0, 0),
         Stmt("outb", ATA_COMMAND, 231), Stmt("ata_wait", 0, 0), Stmt("return", 0, 0)>>

\* values read from the status register: idle, DRQ, BSY, BSY|DRQ, ERR, BSY|ERR,
\* DRQ|ERR, DRDY|DSC|DRQ
StatusValues == {0, 8, 128, 136, 1, 129, 9, 88}

\* sectors addressed: 0x01020304, the last LBA28 address, the first beyond it
AtaLbas == {16909060, Lba28Max, Lba28Max + 1}

\* polls followed one by one at the start and at the end of the budget; the
\* reads in between, all answered busy or not-yet-ready, are one step
PollWindow == 1

AtaStmts ==
    IF ata.fn = "ata_read_sector" THEN ata_read_sector_stmts(ata.lba)
    ELSE ata_write_sector_stmts(ata.lba)

AtaRunning == ata.pos > 0
AtaReturned == ata.fn # "none" /\ ata.pos = 0
AtaCur == AtaStmts[ata.pos]
InWait == AtaRunning /\ AtaCur.op = "ata_wait"

\* loop counter and number of status reads of the ata_wait being executed
PollI == IF ata.wait = "polling" THEN ata.i ELSE 0
PollReads == IF ata.wait = "polling" THEN ata.reads ELSE 0

Event(k, port, val, st) == [k |-> k, port |-> port, val |-> val, st |-> st, words |-> ata.words]

\* return v from the driver function
AtaReturn(a, v) == [a EXCEPT !.pos = 0, !.ret = v]

InitDriver ==
    /\ disk = BlankDisk
    /\ pre = disk
    /\ w = NoWrite
    /\ r = NoRead
    /\ nops = 0
    /\ failed = FALSE
    /\ KernelOff

\* ata_read_sector(lba, buf) or ata_write_sector(lba, buf) is called
AtaCall ==
    /\ ~AtaRunning
    /\ \E fn \in {"ata_read_sector", "ata_write_sector"}, lba \in AtaLbas :
         ata' = [AtaIdle EXCEPT !.fn = fn, !.lba = lba, !.pos = 1]
    /\ UNCHANGED <<disk, pre, w, r, nops, failed, io, loop, pc, kbd, ed, hist, calc, call, boots, saved>>

\* the LBA28 check, a port read whose value is dropped, a register write, return 0
AtaStatement ==
    /\ AtaRunning
    /\ AtaCur.op \in {"check_lba", "inb", "io_wait", "outb", "return"}
    /\ ata' = IF AtaCur.op = "check_lba"
              THEN IF ata.lba > Lba28Max THEN AtaReturn(ata, -1)
                   ELSE [ata EXCEPT !.pos = @ + 1]
              ELSE IF AtaCur.op = "outb"
              THEN [ata EXCEPT !.pos = @ + 1,
                               !.log = Append(@, Event("outb", AtaCur.a, AtaCur.b, 0))]
              ELSE IF AtaCur.op = "return" THEN AtaReturn(ata, AtaCur.a)
              ELSE [ata EXCEPT !.pos = @ + 1]
    /\ UNCHANGED <<disk, pre, w, r, nops, failed, io, loop, pc, kbd, ed, hist, calc, call, boots, saved>>

\* one pass of the 256-word transfer loop (inw or outw on the data port)
AtaTransfer ==
    /\ AtaRunning
    /\ AtaCur.op \in {"inw", "outw"}
    /\ ata' = IF ata.words < AtaCur.b THEN [ata EXCEPT !.words = @ + 1]
              ELSE [ata EXCEPT !.pos = @ + 1]
    /\ UNCHANGED <<disk, pre, w, r, nops, failed, io, loop, pc, kbd, ed, hist, calc, call, boots, saved>>

\* ata_wait reads the status register once
AtaWaitPoll ==
    /\ InWait
    /\ PollI < PollBudget
    /\ \E st \in StatusValues :
         LET res == ata_wait_poll(st, AtaCur.a)
             a == [ata EXCEPT !.i = PollI + 1, !.reads = PollReads + 1, !.st = st,
                              !.want_drq = AtaCur.a]
         IN  /\ res = "continue" => (PollI < PollWindow \/ PollI >= PollBudget - PollWindow)
             /\ ata' = IF res = "continue" THEN [a EXCEPT !.wait = "polling"]
                       ELSE IF res = "ok"
                       THEN [a EXCEPT !.wait = "ok", !.pos = @ + 1,
                                      !.log = Append(@, Event("ata_wait", AtaCur.a, 0, st))]
                       ELSE [AtaReturn(a, -1) EXCEPT
                                      !.wait = "err",
                                      !.log = Append(@, Event("ata_wait", AtaCur.a, -1, st))]
    /\ UNCHANGED <<disk, pre, w, r, nops, failed, io, loop, pc, kbd, ed, hist, calc, call, boots, saved>>

\* the drive stays busy (or not ready for data) through the middle of the budget
AtaWaitBusy ==
    /\ InWait
    /\ PollI >= PollWindow
    /\ PollI < PollBudget - PollWindow
    /\ \E st \in StatusValues :
         /\ ata_wait_poll(st, AtaCur.a) = "continue"
         /\ ata' = [ata EXCEPT !.i = PollBudget - PollWindow,
                               !.reads = PollReads + (PollBudget - PollWindow - PollI),
                               !.st = st, !.wait = "polling", !.want_drq = AtaCur.a]
    /\ UNCHANGED <<disk, pre, w, r, nops, failed, io, loop, pc, kbd, ed, hist, calc, call, boots, saved>>

\* mutant: running out of polls is not reported, the caller goes on
AtaWaitTimeout_Success ==
    /\ InWait
    /\ PollI >= PollBudget
    /\ ata' = [ata EXCEPT !.pos = @ + 1, !.wait = "timeout",
                          !.log = Append(@, Event("ata_wait", AtaCur.a, 0, ata.st))]
    /\ UNCHANGED <<disk, pre, w, r, nops, failed, io, loop, pc, kbd, ed, hist, calc, call, boots, saved>>

\* the loop of ata_wait ends: "ATA: poll timeout", return -1
AtaWaitTimeout ==
    /\ InWait
    /\ PollI >= PollBudget
    /\ ata' = [AtaReturn(ata, -1) EXCEPT
                  !.wait = "timeout",
                  !.log = Append(@, Event("ata_wait", AtaCur.a, -1, ata.st))]
    /\ UNCHANGED <<disk, pre, w, r, nops, failed, io, loop, pc, kbd, ed, hist, calc, call, boots, saved>>

\* the processor executes the driver
AtaRun ==
    \/ AtaStatement
    \/ AtaTransfer
    \/ AtaWaitPoll
    \/ AtaWaitBusy
    \/ AtaWaitTimeout

NextDriver ==
    \/ AtaCall
    \/ AtaStatement
    \/ AtaTransfer
    \/ AtaWaitPoll
    \/ AtaWaitBusy
    \/ AtaWaitTimeout

SpecDriver == InitDriver /\ [][NextDriver]_vars

\* the processor does not stop inside the driver
SpecDriverLive == InitDriver /\ [][NextDriver]_vars /\ WF_vars(AtaRun)

(***************************************************************************)
(* make_dos_name called on its own                                         *)
(***************************************************************************)
\* longest name tried
MaxNameLen == 11

\* 'a' and '.'
NameAlphabet == {97, 46}

\* names with upper case, digits, a second dot, a long extension
NameSamples ==
    {<<82, 101, 97, 100, 77, 101, 46, 116, 120, 116>>,            \* "ReadMe.txt"
     <<97, 46, 98, 46, 99>>,                                      \* "a.b.c"
     <<110, 111, 116, 101, 115, 49, 46, 104, 116, 109, 108>>,     \* "notes1.html"
     <<118, 101, 114, 121, 108, 111, 110, 103, 110, 97, 109, 101, 46, 116, 120, 116>>}
                                                                  \* "verylongname.txt"

NameInputs ==
    NameSamples \cup UNION {[1..n -> NameAlphabet] : n \in 0..MaxNameLen}

\* the name make_dos_name is about to be called with
InitName ==
    /\ disk = BlankDisk
    /\ pre = disk
    /\ w = NoWrite
    /\ r = NoRead
    /\ nops = 0
    /\ failed = FALSE
    /\ io \in {[op |-> "name", sec |-> 0, arg |-> str, buf |-> << >>, ports |-> << >>] :
                   str \in NameInputs}
    /\ ata = AtaIdle
    /\ loop = LoopIdle
    /\ pc = 0
    /\ kbd = KernelStatics
    /\ ed = EditorStatics
    /\ hist = NoHist
    /\ calc = CalcStatics
    /\ call = NoCall
    /\ boots = 0
    /\ saved = NoFile

\* make_dos_name(in, out)
MakeDosName ==
    /\ io.op = "name"
    /\ io' = [io EXCEPT !.op = "make_dos_name", !.buf = make_dos_name(io.arg)]
    /\ UNCHANGED <<disk, pre, w, r, nops, failed, ata, loop, pc, kbd, ed, hist, calc, call, boots, saved>>

NextName == MakeDosName

SpecName == InitName /\ [][NextName]_vars

(***************************************************************************)
(* fat16_write_file and fat16_read_file followed one loop pass at a time   *)
(* (kernel.c:587-596, 603-634, 722-742) on a working drive whose medium    *)
(* was not written by this program: the FAT holds cyclic, self-linked and  *)
(* out-of-range links and the directory entry names any start cluster.     *)
(***************************************************************************)
\* fat_set_entry(l[1], l[2]) for each link l of the sequence
RECURSIVE SetLinks(_, _)
SetLinks(d, links) ==
    IF links = << >> THEN d
    ELSE SetLinks(fat_set_entry(d, Head(links)[1], Head(links)[2]), Tail(links))

\* FAT links, start cluster and size of the entry "A       TXT" in slot 0:
\* a well-formed chain, a self-link, a cycle of two, a cycle through an entry
\* past the data clusters, a link to reserved cluster 1, a start cluster whose
\* entry lies in the data area (0xFFF7), and a size of 2 GiB - 1
CorruptCases ==
    {[links |-> <<<<2, 3>>, <<3, 65535>>>>, start |-> 2, size |-> 600],
     [links |-> <<<<2, 2>>>>, start |-> 2, size |-> 2000],
     [links |-> <<<<2, 3>>, <<3, 2>>>>, start |-> 2, size |-> 2000],
     [links |-> <<<<2, 600>>, <<600, 2>>>>, start |-> 2, size |-> 2000],
     [links |-> <<<<2, 1>>>>, start |-> 2, size |-> 2000],
     [links |-> <<<<65527, 65527>>>>, start |-> 65527, size |-> 2000],
     [links |-> <<<<2, 2>>>>, start |-> 2, size |-> 2147483647]}

CorruptVolume(k) ==
    WriteDirEntry(SetLinks(fat16_init(BlankDisk), k.links), 0, make_dos_name(Name_a_txt),
                  k.start, k.size)

ChainNames == {Name_a_txt, Name_b}
ChainDatas == {DataBytes(1, 0), DataBytes(1, 1), DataBytes(3, 1025)}
ChainMaxLens == {0, 100, 2000}
MaxChainCalls == 2

InitChain ==
    /\ disk \in {CorruptVolume(k) : k \in CorruptCases}
    /\ pre = disk
    /\ w = NoWrite
    /\ r = NoRead
    /\ nops = 0
    /\ failed = FALSE
    /\ KernelOff

LoopRunning == loop.phase \in {"free", "alloc", "read"}

LoopReturn(l, v) == [l EXCEPT !.phase = "done", !.ret = v]

\* write_sector calls of the call so far: what the sector is written for
\* ("fat": fat_set_entry, "data": kernel.c:629, "dir": kernel.c:667) and its number
Wrote(l, kind, sectors) == [l EXCEPT !.wr = @ \cup {<<kind, sec>> : sec \in sectors}]

\* fat16_write_file up to its first loop: the name, the directory scan
WriteEntered(name, data) ==
    LET scan == WScan(disk, make_dos_name(name), 0, -1)
    IN  [LoopIdle EXCEPT !.fn = "fat16_write_file", !.name = name, !.data = data,
                         !.phase = IF scan.existing >= 2 THEN "free" ELSE "alloc",
                         !.c = scan.existing, !.remaining = Len(data),
                         !.found_offset = scan.found_offset]

\* fat16_read_file up to its loop: the directory search, the entry's fields
ReadEntered(name, maxlen) ==
    LET m == RScan(disk, make_dos_name(name), 0)
        dirsec == read_sector(disk, root_start + m.s)
        start_cluster == (Byte(dirsec, m.off + 26) + Byte(dirsec, m.off + 27) * 256) % U16
        file_size == Byte(dirsec, m.off + 28) + Byte(dirsec, m.off + 29) * 256
                     + Byte(dirsec, m.off + 30) * 65536
                     + Byte(dirsec, m.off + 31) * 16777216
        l == [LoopIdle EXCEPT !.fn = "fat16_read_file", !.name = name, !.maxlen = maxlen]
    IN  IF m.s < 0 THEN LoopReturn(l, -1)
        ELSE IF file_size = 0 THEN LoopReturn(l, 0)
        ELSE [l EXCEPT !.phase = "read", !.c = start_cluster,
                       !.toread = IF file_size < maxlen THEN file_size ELSE maxlen]

\* a call begins
ChainCall ==
    /\ ~LoopRunning
    /\ nops < MaxChainCalls
    /\ \/ \E name \in ChainNames, data \in ChainDatas : loop' = WriteEntered(name, data)
       \/ \E name \in ChainNames, maxlen \in ChainMaxLens : loop' = ReadEntered(name, maxlen)
    /\ pre' = disk
    /\ nops' = nops + 1
    /\ UNCHANGED <<disk, w, r, failed, io, ata, pc, kbd, ed, hist, calc, call, boots, saved>>

\* one more test of a loop condition was made; odd tells whether their number
\* so far is odd
Ticked(l) == [l EXCEPT !.odd = ~@]

\* the call's locals after one test of "while (c >= 2 && c < 0xFFF8)" and, if
\* it holds, one pass
FreePass(l, d) ==
    IF l.c >= 2 /\ l.c < 65528
    THEN LET next == fat_get_entry(d, l.c)
             l1 == Wrote(l, "fat", fat_set_entry_writes(l.c))
         IN  IF next >= 65528 THEN [l1 EXCEPT !.phase = "alloc"] ELSE [l1 EXCEPT !.c = next]
    ELSE [l EXCEPT !.phase = "alloc"]

\* the call's locals after one test of "while (remaining > 0)" and, if it
\* holds, one pass; when it fails, after the rest of the function
AllocPass(l, d) ==
    IF l.remaining = 0
    THEN LET l1 == IF l.prev_cluster # 0
                   THEN Wrote(l, "fat", fat_set_entry_writes(l.prev_cluster)) ELSE l
         IN  IF l.found_offset < 0 THEN LoopReturn(l1, -1)
             ELSE LoopReturn(Wrote(l1, "dir", {root_start + (l.found_offset \div SECTOR_SIZE)}), 0)
    ELSE LET c == fat_find_free_cluster(d)
         IN  IF c < 0 THEN LoopReturn(l, -1)
             ELSE LET tocopy == IF l.remaining > SECTOR_SIZE THEN SECTOR_SIZE ELSE l.remaining
                      l1 == IF l.prev_cluster # 0
                            THEN Wrote(l, "fat", fat_set_entry_writes(l.prev_cluster)) ELSE l
                      l2 == Wrote(l1, "data", {cluster_to_sector(c)})
                  IN  [l2 EXCEPT !.ptr = @ + tocopy, !.remaining = @ - tocopy,
                                 !.first_cluster = IF @ = 0 THEN c ELSE @,
                                 !.prev_cluster = c]

\* the call's locals after one test of "while (c >= 2 && got < toread)" and,
\* if it holds, one pass
ReadPass(l, d) ==
    IF l.c >= 2 /\ l.got < l.toread
    THEN LET copy == IF l.toread - l.got > SECTOR_SIZE THEN SECTOR_SIZE ELSE l.toread - l.got
             next == fat_get_entry(d, l.c)
         IN  IF next >= 65528 THEN LoopReturn([l EXCEPT !.got = @ + copy], l.got + copy)
             ELSE [l EXCEPT !.got = @ + copy, !.c = next]
    ELSE LoopReturn(l, l.got)

\* mutant: the pass leaves the entry of the cluster as it is
FreeStep_KeepsEntry ==
    /\ loop.phase = "free"
    /\ loop' = FreePass(Ticked(loop), disk)
    /\ UNCHANGED <<disk, pre, w, r, nops, failed, io, ata, pc, kbd, ed, hist, calc, call, boots, saved>>

\* the chain-freeing loop (kernel.c:590-595): fat_set_entry(c, 0x0000)
FreeStep ==
    /\ loop.phase = "free"
    /\ loop' = FreePass(Ticked(loop), disk)
    /\ disk' = IF loop.c >= 2 /\ loop.c < 65528 THEN fat_set_entry(disk, loop.c, 0) ELSE disk
    /\ UNCHANGED <<pre, w, r, nops, failed, io, ata, pc, kbd, ed, hist, calc, call, boots, saved>>

\* the allocation loop (kernel.c:605-630): the link from the previous cluster
\* and the data sector; after it the end-of-chain mark and the directory entry
\* (kernel.c:633-667)
AllocStep ==
    /\ loop.phase = "alloc"
    /\ loop' = AllocPass(Ticked(loop), disk)
    /\ IF loop.remaining = 0
       THEN LET d1 == IF loop.prev_cluster # 0
                      THEN fat_set_entry(disk, loop.prev_cluster, 65535) ELSE disk
            IN  disk' = IF loop.found_offset < 0 THEN d1
                        ELSE WriteDirEntry(d1, loop.found_offset, make_dos_name(loop.name),
                                           loop.first_cluster, Len(loop.data))
       ELSE LET c == fat_find_free_cluster(disk)
                tocopy == IF loop.remaining > SECTOR_SIZE THEN SECTOR_SIZE ELSE loop.remaining
                secbuf == Trim(SubSeq(loop.data, loop.ptr + 1, loop.ptr + tocopy))
                d1 == IF loop.prev_cluster # 0 THEN fat_set_entry(disk, loop.prev_cluster, c)
                      ELSE disk
            IN  disk' = IF c < 0 THEN disk ELSE write_sector(d1, cluster_to_sector(c), secbuf)
    /\ UNCHANGED <<pre, w, r, nops, failed, io, ata, pc, kbd, ed, hist, calc, call, boots, saved>>

\* the chain-reading loop (kernel.c:722-742)
ReadStep ==
    /\ loop.phase = "read"
    /\ loop' = ReadPass(Ticked(loop), disk)
    /\ UNCHANGED <<disk, pre, w, r, nops, failed, io, ata, pc, kbd, ed, hist, calc, call, boots, saved>>

NextChain ==
    \/ ChainCall
    \/ FreeStep
    \/ AllocStep
    \/ ReadStep

SpecChain == InitChain /\ [][NextChain]_vars

\* the running loop makes its next test or pass
LoopAdvance ==
    \/ loop.phase = "free" /\ loop' = FreePass(Ticked(loop), disk)
    \/ loop.phase = "alloc" /\ loop' = AllocPass(Ticked(loop), disk)
    \/ loop.phase = "read" /\ loop' = ReadPass(Ticked(loop), disk)

\* the same calls on the volume kernel_main has formatted
SpecRegion == Init /\ [][NextChain]_vars

\* the processor does not stop inside a call
SpecChainLive == InitChain /\ [][NextChain]_vars /\ WF_loop(LoopAdvance)

(***************************************************************************)
(* On-disk layout, read directly from the volume bytes (spec.md section 3  *)
(* and 6): FAT entries, root-directory slots, cluster chains.              *)
(***************************************************************************)
DataClusters == 2..(2 + max_clusters - 1)

\* the 16-bit little-endian value at byte offset cluster*2 of FAT copy "copy"
FatEntry(d, copy, cluster) ==
    LET sec == d[first_fat_sector + copy * SECTORS_PER_FAT + ((cluster * 2) \div SECTOR_SIZE)]
        off == (cluster * 2) % SECTOR_SIZE
    IN  Byte(sec, off) + 256 * Byte(sec, off + 1)

\* byte k of the 32-byte root-directory slot i
SlotByte(d, i, k) ==
    Byte(d[root_start + ((i * 32) \div SECTOR_SIZE)], ((i * 32) % SECTOR_SIZE) + k)

Slots == 0..(ROOT_DIR_ENTRIES - 1)

SlotInUse(d, i) == SlotByte(d, i, 0) # 0 /\ SlotByte(d, i, 0) # 229

SlotHasName(d, i, dosname) == \A k \in 0..10 : SlotByte(d, i, k) = dosname[k + 1]

SlotCluster(d, i) == SlotByte(d, i, 26) + 256 * SlotByte(d, i, 27)

SlotSize(d, i) == SlotByte(d, i, 28) + 256 * SlotByte(d, i, 29) + 65536 * SlotByte(d, i, 30)
                  + 16777216 * SlotByte(d, i, 31)

InUseSlots(d) == {i \in Slots : SlotInUse(d, i)}

\* the in-use slots that carry the 11-byte name
SlotsNamed(d, dosname) == {i \in Slots : SlotInUse(d, i) /\ SlotHasName(d, i, dosname)}

NamePresent(d, dosname) == \E i \in Slots : SlotInUse(d, i) /\ SlotHasName(d, i, dosname)

\* the clusters reached from c by following FAT links, stopping at an
\* end-of-chain marker, a reserved or free value, or a cluster already seen
RECURSIVE Reach(_, _, _)
Reach(d, c, seen) ==
    IF c < 2 \/ c >= 65528 \/ c \in seen THEN seen
    ELSE Reach(d, FatEntry(d, 0, c), seen \cup {c})

\* the chain from start is n distinct clusters, the last one marked end-of-chain
RECURSIVE ChainOfLength(_, _, _, _)
ChainOfLength(d, c, n, seen) ==
    /\ n >= 1
    /\ c >= 2 /\ c < 65528 /\ c \notin seen
    /\ IF n = 1 THEN FatEntry(d, 0, c) >= 65528
       ELSE ChainOfLength(d, FatEntry(d, 0, c), n - 1, seen \cup {c})

UsedClusters(d) == {c \in DataClusters : FatEntry(d, 0, c) # 0}

FileChains(d) == UNION {Reach(d, SlotCluster(d, i), {}) : i \in InUseSlots(d)}

CeilDiv(a, b) == (a + b - 1) \div b

Min(a, b) == IF a <= b THEN a ELSE b

\* the caller's buffer holds exactly bytes[1..n] at indices 0..n-1 and nothing else was written
OutIs(out, bytes, n) ==
    /\ DOMAIN out = 0..(n - 1)
    /\ \A i \in 0..(n - 1) : out[i] = bytes[i + 1]

Written == w.site # "none"
ReadDone == r.site = "called"
SameFile(n1, n2) == make_dos_name(n1) = make_dos_name(n2)

(***************************************************************************)
(* Claims                                                                  *)
(***************************************************************************)

\* C1: round trip.  On a volume reached from format() by write_file calls, with
\* enough free clusters for the data (always the case in Spec: at most MaxOps
\* files of at most 3 sectors on 471 clusters), write_file(name, data) succeeds
\* and the read_file(name, buffer, len(data)) that follows returns len(data)
\* and fills the buffer with exactly data.
C1_RoundTrip ==
    /\ Written => w.ret = 0
    /\ (Written /\ ReadDone /\ r.name = w.name /\ r.maxlen = Len(w.data))
          => (r.ret = Len(w.data) /\ OutIs(r.out, w.data, Len(w.data)))

\* C2: overwrite never leaks.  After any sequence of successful write_file calls
\* the data clusters with a non-zero FAT entry are exactly the clusters on the
\* chains of the in-use directory entries; so a cluster of an overwritten file's
\* old chain is marked used only if it is on a current chain.
C2_NoLeak == ~failed => UsedClusters(disk) = FileChains(disk)

\* C2 witness: a successful write that replaced a file of more than one cluster
C2_Witness ==
    /\ Written /\ ~failed /\ w.ret = 0
    /\ \E i \in SlotsNamed(pre, make_dos_name(w.name)) :
          Cardinality(Reach(pre, SlotCluster(pre, i), {})) >= 2
    /\ UsedClusters(disk) # UsedClusters(pre)

\* C3: chain-length invariant.  For every in-use directory entry with recorded
\* size s > 0 the chain from its starting cluster is exactly ceil(s / 512)
\* distinct clusters ending in an end-of-chain marker.
C3_ChainLength ==
    \A i \in InUseSlots(disk) :
        SlotSize(disk, i) > 0 =>
            ChainOfLength(disk, SlotCluster(disk, i),
                          CeilDiv(SlotSize(disk, i), SECTOR_SIZE * SECTORS_PER_CLUSTER), {})

\* C4: concrete scenario.  A 600-byte file written right after format() occupies
\* clusters 2 and 3 (sectors 41 and 42): FAT[2] = 3 and FAT[3] = 0xFFFF in both
\* copies, sector 41 holds bytes 0..511, sector 42 bytes 512..599 then zeros, and
\* the size field of the directory entry is 0x58,0x02,0x00,0x00.
C4_Scenario600 ==
    (nops = 1 /\ Len(w.data) = 600) =>
        /\ w.ret = 0
        /\ UsedClusters(disk) = {2, 3}
        /\ \A copy \in 0..(NUM_FATS - 1) :
              FatEntry(disk, copy, 2) = 3 /\ FatEntry(disk, copy, 3) = 65535
        /\ cluster_to_sector(2) = 41 /\ cluster_to_sector(3) = 42
        /\ disk[41] = Trim(SubSeq(w.data, 1, 512))
        /\ disk[42] = Trim(SubSeq(w.data, 513, 600))
        /\ \E i \in SlotsNamed(disk, make_dos_name(w.name)) :
              /\ SlotCluster(disk, i) = 2
              /\ <<SlotByte(disk, i, 28), SlotByte(disk, i, 29),
                   SlotByte(disk, i, 30), SlotByte(disk, i, 31)>> = <<88, 2, 0, 0>>

AllClustersUsed(d) == \A c \in DataClusters : FatEntry(d, 0, c) # 0

HasFreeSlot(d) == \E i \in Slots : SlotByte(d, i, 0) = 0 \/ SlotByte(d, i, 0) = 229

RootDir(d) == [s \in root_start..(root_start + root_dir_sectors - 1) |-> d[s]]

\* C5: disk full is reported.  When every data cluster's FAT entry is non-zero,
\* write_file with non-empty data on a name that has no directory entry returns
\* failure.
C5_DiskFullReported ==
    (Written /\ AllClustersUsed(pre) /\ Len(w.data) > 0
             /\ ~NamePresent(pre, make_dos_name(w.name)))
        => w.ret = -1

C5_Witness ==
    /\ Written /\ AllClustersUsed(pre) /\ Len(w.data) > 0
    /\ ~NamePresent(pre, make_dos_name(w.name))
    /\ w.ret = -1 /\ w.site = "disk_full"

\* C6: disk full does not corrupt the directory.  A write_file call on a name with
\* no directory entry that fails for lack of a free cluster leaves every byte of
\* the root-directory area unchanged.
C6_DiskFullKeepsDirectory ==
    (Written /\ w.site = "disk_full" /\ ~NamePresent(pre, make_dos_name(w.name)))
        => RootDir(disk) = RootDir(pre)

C6_Witness ==
    /\ Written /\ w.site = "disk_full" /\ ~NamePresent(pre, make_dos_name(w.name))
    /\ InUseSlots(pre) # {}
    /\ HasFreeSlot(pre)

\* C7: directory full is reported.  When no root-directory slot is never-used or
\* deleted and no entry carries the normalized name, write_file returns failure.
C7_DirFullReported ==
    (Written /\ ~HasFreeSlot(pre) /\ ~NamePresent(pre, make_dos_name(w.name)))
        => w.ret = -1

C7_Witness ==
    /\ Written /\ ~HasFreeSlot(pre) /\ ~NamePresent(pre, make_dos_name(w.name))
    /\ w.ret = -1 /\ w.site = "dir_full"

\* C8: missing file.  read_file on a name that no in-use directory entry carries
\* (after normalization) returns the not-found value -1 and writes nothing into
\* the caller's buffer.
C8_MissingFile ==
    (ReadDone /\ ~NamePresent(disk, make_dos_name(r.name)))
        => (r.ret = -1 /\ DOMAIN r.out = {})

\* C8 witness: a read of an absent name on a volume that holds other files
C8_Witness ==
    /\ ReadDone /\ ~NamePresent(disk, make_dos_name(r.name))
    /\ InUseSlots(disk) # {}
    /\ r.ret = -1

\* what C9 says of a write_file(name, empty data) call and the read that follows
EmptyFileOutcome ==
    LET dosname == make_dos_name(w.name)
        old == UNION {Reach(pre, SlotCluster(pre, i), {}) : i \in SlotsNamed(pre, dosname)}
    IN  /\ w.ret = 0
        /\ \A c \in DataClusters :
              FatEntry(disk, 0, c) = IF c \in old THEN 0 ELSE FatEntry(pre, 0, c)
        /\ SlotsNamed(disk, dosname) # {}
        /\ \A i \in SlotsNamed(disk, dosname) :
              SlotCluster(disk, i) = 0 /\ SlotSize(disk, i) = 0
        /\ (ReadDone /\ SameFile(r.name, w.name))
              => /\ r.ret = 0
                 /\ DOMAIN r.out = {}
                 /\ r.rd \subseteq root_start..(root_start + root_dir_sectors - 1)

\* C9 as stated: write_file(name, empty data) succeeds, allocates and links no
\* cluster (the chain of an overwritten file is freed), leaves an entry with
\* starting cluster 0 and size 0, and the following read_file returns 0 bytes
\* having read directory sectors only.
C9_EmptyFile_AsStated ==
    (Written /\ Len(w.data) = 0) => EmptyFileOutcome

\* C9 (amended): the same, for a call made when the root directory holds an
\* entry for the name or a never-used or deleted slot.
C9_EmptyFile ==
    (Written /\ Len(w.data) = 0
             /\ (NamePresent(pre, make_dos_name(w.name)) \/ HasFreeSlot(pre)))
        => EmptyFileOutcome

\* C9 witness: an empty write replaced a file that owned clusters, then was read
C9_Witness ==
    /\ Written /\ Len(w.data) = 0 /\ w.ret = 0
    /\ \E i \in SlotsNamed(pre, make_dos_name(w.name)) : SlotCluster(pre, i) >= 2
    /\ ReadDone /\ SameFile(r.name, w.name) /\ r.ret = 0

\* C10: silent truncation.  For a file successfully written with data,
\* read_file(name, buffer, max_len) returns min(len(data), max_len), the buffer
\* holds the first min(len(data), max_len) bytes of data, and no index at or
\* beyond max_len is written.
C10_Truncation ==
    (Written /\ w.ret = 0 /\ ReadDone /\ SameFile(r.name, w.name))
        => /\ r.ret = Min(Len(w.data), r.maxlen)
           /\ OutIs(r.out, w.data, Min(Len(w.data), r.maxlen))

\* the first slot, in scan order, whose first byte is 0x00 (ROOT_DIR_ENTRIES if none)
FirstZeroSlot(d) ==
    IF \E i \in Slots : SlotByte(d, i, 0) = 0
    THEN CHOOSE i \in Slots : SlotByte(d, i, 0) = 0 /\ \A j \in 0..(i - 1) : SlotByte(d, j, 0) # 0
    ELSE ROOT_DIR_ENTRIES

\* the first never-used or deleted slot (ROOT_DIR_ENTRIES if none)
FirstFreeSlot(d) ==
    IF HasFreeSlot(d)
    THEN CHOOSE i \in Slots : /\ SlotByte(d, i, 0) \in {0, 229}
                              /\ \A j \in 0..(i - 1) : SlotByte(d, j, 0) \notin {0, 229}
    ELSE ROOT_DIR_ENTRIES

\* the files of the directory: the in-use entries before the first 0x00 slot
ListedSlots(d) == {i \in InUseSlots(d) : i < FirstZeroSlot(d)}

Listed(d, dosname) == \E i \in ListedSlots(d) : SlotHasName(d, i, dosname)

Slot(d, i) == [k \in 0..31 |-> SlotByte(d, i, k)]

\* C11: directory scan termination.  The scans of read_file and write_file stop
\* at the first slot whose first byte is 0x00: read_file of a name carried only
\* by entries after that slot returns not-found, and a successful write_file of
\* such a name fills the first never-used or deleted slot and leaves every
\* other slot of the root directory as it was.  (Stated for calls during which
\* the drive answers every command.)
C11_ScanStops ==
    /\ (ReadDone /\ disk[DriveCond] = Healthy /\ ~Listed(disk, make_dos_name(r.name)))
          => r.ret = -1
    /\ (Written /\ pre[DriveCond] = Healthy /\ w.site = "ok" /\ ~Listed(pre, make_dos_name(w.name)))
          => \A s \in 0..(root_dir_sectors - 1) :
                \/ disk[root_start + s] = pre[root_start + s]
                \/ /\ s = (FirstFreeSlot(pre) * 32) \div SECTOR_SIZE
                   /\ \A i \in (s * 16)..(s * 16 + 15) :
                         i # FirstFreeSlot(pre) => Slot(disk, i) = Slot(pre, i)

\* the medium holds the file a write_file(name, data) call of at most one sector
\* reports written: an entry with the size, and the data in the sector of its cluster
OnMedium(d, name, data) ==
    \E i \in SlotsNamed(d, make_dos_name(name)) :
        /\ SlotSize(d, i) = Len(data)
        /\ Len(data) > 0 =>
              /\ SlotCluster(d, i) \in DataClusters
              /\ d[cluster_to_sector(SlotCluster(d, i))] = Trim(data)

\* C14: device failures are surfaced.  A write_file call during which a sector
\* read fails (the first directory sector is always read) returns failure, and
\* a call that returns success has put the entry and the data on the medium.
C14_DeviceFailureSurfaced ==
    Written =>
        /\ (pre[DriveCond].rstage # 0 /\ root_start \in pre[DriveCond].bad) => w.ret # 0
        /\ (w.ret = 0 /\ Len(w.data) <= SECTOR_SIZE) => OnMedium(disk, w.name, w.data)

\* sector s of FAT copy "copy"
FatSector(d, copy, s) == d[first_fat_sector + copy * SECTORS_PER_FAT + s]

\* C12: FAT duplication.  After format() and after every write_file call,
\* successful or failed, every sector of the second FAT copy is byte for byte
\* the corresponding sector of the first (on a drive that answers every command).
C12_FatCopiesIdentical ==
    \A s \in 0..(SECTORS_PER_FAT - 1) : FatSector(disk, 1, s) = FatSector(disk, 0, s)

\* C12 witness: a failed write_file call that changed FAT entries
C12_Witness ==
    /\ Written /\ w.ret = -1
    /\ \E c \in DataClusters : FatEntry(disk, 0, c) # FatEntry(pre, 0, c)
    /\ \A s \in 0..(SECTORS_PER_FAT - 1) : FatSector(disk, 1, s) = FatSector(disk, 0, s)

\* the names and the buffer length with which the volume is read back
ViewNames == {Name_a_txt, Name_b, Name_missing_txt}
ViewLen == 2000

\* what a caller can observe of the volume: both FAT copies, the root directory,
\* and the result of fat16_read_file for every name
VolumeView(d) ==
    [fat0 |-> [s \in 0..(SECTORS_PER_FAT - 1) |-> FatSector(d, 0, s)],
     fat1 |-> [s \in 0..(SECTORS_PER_FAT - 1) |-> FatSector(d, 1, s)],
     root |-> RootDir(d),
     reads |-> [n \in ViewNames |->
                  LET x == fat16_read_file(d, n, ViewLen) IN <<x.ret, x.out>>]]

\* the step is a fat16_write_file call with the name and data of the call before it
RepeatedWrite ==
    /\ Written
    /\ nops' = nops + 1
    /\ w'.name = w.name
    /\ w'.data = w.data

\* C13: idempotent re-invocation.  A write_file(name, data) call that directly
\* follows a call with the same name and data leaves both FAT copies, the root
\* directory and the result of read_file for every name as the first call left
\* them.
C13_Idempotent ==
    [][RepeatedWrite => VolumeView(disk') = VolumeView(disk)]_vars

\* C13 for calls that report success only
C13_IdempotentOnSuccess ==
    [][(RepeatedWrite /\ w.ret = 0 /\ w'.ret = 0) => VolumeView(disk') = VolumeView(disk)]_vars

\* all 512 bytes of the sector are zero (the bytes past Len(buf) are)
AllZero(buf) == \A i \in 0..(Len(buf) - 1) : Byte(buf, i) = 0

\* C18: out-of-range sector access is absorbed.  For a sector number at or past
\* TOTAL_SECTORS, read_sector leaves 512 zero bytes in the buffer, write_sector
\* leaves the medium as it was, and neither touches a port of the drive.
C18_OutOfRangeAbsorbed ==
    /\ (io.op = "read_sector" /\ io.sec >= TOTAL_SECTORS)
          => AllZero(io.buf) /\ io.ports = << >>
    /\ (io.op = "write_sector" /\ io.sec >= TOTAL_SECTORS)
          => disk = pre /\ io.ports = << >>

\* C18 witness: an out-of-range read into a buffer that held data
C18_Witness ==
    /\ io.op = "read_sector" /\ io.sec = TOTAL_SECTORS /\ io.arg = StaleBuf
    /\ AllZero(io.buf) /\ io.ports = << >>

\* the drive reports failure for the read of sector io.sec
AtaReadFailed == ata_read_sector(disk, io.sec, io.arg).status # 0

\* C20: device read failure yields zeros.  When the sector number is inside the
\* volume and ata_read_sector returns failure, at whichever wait of the protocol
\* (also after all 256 words were transferred), read_sector leaves 512 zero
\* bytes in the buffer.
C20_ReadFailureZeros ==
    (io.op = "read_sector" /\ io.sec < TOTAL_SECTORS /\ AtaReadFailed) => AllZero(io.buf)

\* C20 witness: the read failed at the last wait, after the drive had transferred
\* the 256 words of a sector that holds data
C20_Witness ==
    /\ io.op = "read_sector" /\ io.sec = root_start /\ AtaReadFailed
    /\ disk[DriveCond].rstage = 3
    /\ ~AllZero(ata_read_sector(disk, io.sec, io.arg).buf)
    /\ ~AllZero(disk[io.sec])
    /\ AllZero(io.buf)

\* the 16-bit little-endian field at byte offset off of a sector
Field16(buf, off) == Byte(buf, off) + Byte(buf, off + 1) * 256

\* number of 16-bit entries of one FAT copy
FatEntries == (SECTORS_PER_FAT * SECTOR_SIZE) \div 2

\* the volume as format() is to leave it
Formatted(d) ==
    /\ Field16(d[0], 11) = 512
    /\ Byte(d[0], 13) = 1
    /\ Field16(d[0], 14) = 1
    /\ Field16(d[0], 16) = 512
    /\ Field16(d[0], 19) = 512
    /\ Byte(d[0], 21) = 248
    /\ Field16(d[0], 22) = 4
    /\ Byte(d[0], 38) = 41
    /\ \A copy \in 0..(NUM_FATS - 1) :
          /\ FatEntry(d, copy, 0) = 65528
          /\ FatEntry(d, copy, 1) = 65535
          /\ \A c \in 2..(FatEntries - 1) : FatEntry(d, copy, c) = 0
    /\ \A s \in root_start..(TOTAL_SECTORS - 1) : AllZero(d[s])

\* fat16_init has just returned to kernel_main
JustFormatted ==
    /\ pc \in 2..(Len(kernel_main) + 1)
    /\ kernel_main[pc - 1] = "fat16_init_returns"

\* C15: format post-state.  When fat16_init returns on a drive that answers
\* every command, whatever the medium held before, sector 0 carries the
\* boot-sector fields (512 at 11, 1 at 13, 1 at 14, 512 at 16, 512 at 19, 0xF8
\* at 21, 4 at 22, 0x29 at 38), both FAT copies hold 0xFFF8, 0xFFFF and then
\* zeros, and every root-directory and data sector is zero.
C15_FormatPostState ==
    (JustFormatted /\ disk[DriveCond] = Healthy) => Formatted(disk)

\* C15 witness: the medium held a directory and data before the first start
C15_Witness ==
    /\ JustFormatted /\ disk[DriveCond] = Healthy
    /\ boots = 0
    /\ ~AllZero(pre[root_start]) /\ ~AllZero(pre[first_data_sector]) /\ ~AllZero(pre[first_fat_sector])
    /\ Formatted(disk)

\* C16: format precedes file operations.  Whenever keyboard interrupts arrive
\* after init_idt64 has returned, a handler that calls fat16_write_file or
\* fat16_read_file runs after fat16_init has returned.
C16_FormatFirst ==
    call.fat # "none" => Executed("fat16_init_returns", call.pc)

\* C16 witness: the file was saved by keys that arrived before kernel_main
\* reached its idle loop
C16_Witness ==
    /\ call.fat = "fat16_write_file"
    /\ call.pc = pc
    /\ pc <= Len(kernel_main)
    /\ Executed("fat16_init_returns", call.pc)
    /\ w.ret = 0

\* C17: persistence.  A file written with success is returned unchanged by
\* read_file after the machine was restarted (kernel_main ran again on the same
\* drive) and before anything else was written.
C17_Persistence ==
    (saved.valid /\ ~Written /\ ReadDone /\ SameFile(r.name, saved.name))
        => /\ r.ret = Len(saved.data)
           /\ OutIs(r.out, saved.data, Len(saved.data))

\* C19: editor exit signalling.  editor_handle_scancode returns 0 or 1; it
\* returns 0 exactly when the editor is inactive after the call, which is
\* exactly when it was inactive before the call or the scancode completed Ctrl+Q
\* outside a file prompt.
C19_ExitSignal ==
    call.fn = "editor_handle_scancode"
        => /\ call.ret \in {0, 1}
           /\ (call.ret = 0) <=> (ed.editor_active = 0)
           /\ (call.ret = 0) <=> (call.was_active = 0 \/ call.quit)

\* C19 witness: Ctrl+Q outside a prompt ended the editor
C19_Witness ==
    /\ call.fn = "editor_handle_scancode"
    /\ call.was_active = 1 /\ call.quit
    /\ call.ret = 0 /\ ed.editor_active = 0

\* Ctrl+Q inside a file prompt types a q into the name and the editor goes on
C19_WitnessPrompt ==
    /\ call.fn = "editor_handle_scancode"
    /\ ed.prompt_mode # PROMPT_NONE /\ ed.ctrl_down # 0 /\ ed.prompt_buf = <<113>>
    /\ call.ret = 1 /\ ed.editor_active = 1

\* events of the driver call being followed
IsOut(e, port, val) == e.k = "outb" /\ e.port = port /\ e.val = val
IsWait(e, want_drq, ret) == e.k = "ata_wait" /\ e.port = want_drq /\ e.val = ret
WaitEvents(want_drq, ret) == {j \in 1..Len(ata.log) : IsWait(ata.log[j], want_drq, ret)}
OutBefore(j, port, val) == \E m \in 1..(j - 1) : IsOut(ata.log[m], port, val)

\* drive/head, sector count 1 and the three LBA bytes were written before event j
ProgrammedBefore(j) ==
    /\ OutBefore(j, ATA_DRIVE_HEAD, 224 + ((ata.lba \div 16777216) % 16))
    /\ OutBefore(j, ATA_SECT_COUNT, 1)
    /\ OutBefore(j, ATA_LBA_LOW, ata.lba % 256)
    /\ OutBefore(j, ATA_LBA_MID, (ata.lba \div 256) % 256)
    /\ OutBefore(j, ATA_LBA_HIGH, (ata.lba \div 65536) % 256)

\* the wait logged as event j saw the drive ready for data before any word moved
DataReady(j) ==
    /\ IsWait(ata.log[j], 1, 0)
    /\ Bit(ata.log[j].st, ATA_SR_DRQ)
    /\ ~Bit(ata.log[j].st, ATA_SR_BSY)
    /\ ~Bit(ata.log[j].st, ATA_SR_ERR)
    /\ ata.log[j].words = 0

\* the wait logged as event j saw the drive not busy after all 256 words
TransferDone(j) ==
    /\ j \in 1..Len(ata.log)
    /\ IsWait(ata.log[j], 0, 0)
    /\ ~Bit(ata.log[j].st, ATA_SR_BSY)
    /\ ~Bit(ata.log[j].st, ATA_SR_ERR)
    /\ ata.log[j].words = SectorWords

\* C21: bounded polling.  Whatever the status register answers, one ata_wait
\* makes at most 1,000,000 status reads; when the 1,000,000th read does not end
\* it, it returns the timeout failure (-1) without reading again; and every
\* ata_read_sector and ata_write_sector call returns 0 or -1.
C21_BoundedPolling ==
    /\ [](ata.reads <= PollBudget)
    /\ [](ata.wait = "timeout" => (ata.reads = PollBudget /\ AtaReturned /\ ata.ret = -1))
    /\ [][(InWait /\ ata.wait = "polling" /\ ata.reads = PollBudget)
             => (ata'.wait = "timeout" /\ ata'.reads = PollBudget)]_vars
    /\ (AtaRunning ~> (AtaReturned /\ ata.ret \in {0, -1}))

\* C21 witness: the drive stayed busy for the whole budget
C21_Witness ==
    /\ AtaReturned /\ ata.ret = -1
    /\ ata.wait = "timeout" /\ ata.reads = PollBudget /\ Bit(ata.st, ATA_SR_BSY)

\* C22: the error bit fails at once.  A status read with ERR set is the last
\* read of its ata_wait, which returns -1; ata_wait returns -1 otherwise only on
\* timeout; and it returns 0 only on a read with ERR and BSY clear and, when
\* data-ready was asked for, DRQ set.
C22_ErrFailsAtOnce ==
    /\ Bit(ata.st, ATA_SR_ERR) => (ata.wait = "err" /\ AtaReturned /\ ata.ret = -1)
    /\ ata.wait = "err" => Bit(ata.st, ATA_SR_ERR)
    /\ ata.wait = "ok" => /\ ~Bit(ata.st, ATA_SR_ERR)
                          /\ ~Bit(ata.st, ATA_SR_BSY)
                          /\ (ata.want_drq # 0 => Bit(ata.st, ATA_SR_DRQ))

\* C22 witness: ERR came up together with BSY after polls that saw the drive busy
C22_Witness ==
    /\ ata.wait = "err" /\ ata.st = 129 /\ ata.reads > 1
    /\ AtaReturned /\ ata.ret = -1

\* C23: read protocol ordering.  In ata_read_sector the drive/head byte, sector
\* count 1 and the three LBA bytes are written before command 0x20; words are
\* read from the data port only after a wait saw DRQ set with BSY and ERR clear;
\* the call reads 256 words when that wait succeeded and none otherwise; and it
\* returns 0 only after a last wait saw the drive not busy.
C23_ReadOrdering ==
    ata.fn = "ata_read_sector" =>
        /\ \A j \in 1..Len(ata.log) :
              IsOut(ata.log[j], ATA_COMMAND, 32) => ProgrammedBefore(j)
        /\ ata.words <= SectorWords
        /\ ata.words > 0 => \E j \in 1..Len(ata.log) :
                                /\ DataReady(j)
                                /\ OutBefore(j, ATA_COMMAND, 32)
        /\ AtaReturned => ata.words = (IF WaitEvents(1, 0) # {} THEN SectorWords ELSE 0)
        /\ (AtaReturned /\ ata.ret = 0) => TransferDone(Len(ata.log))

\* C23 witness: a read of sector 0x01020304 that returned 0
C23_Witness ==
    /\ ata.fn = "ata_read_sector" /\ ata.lba = 16909060
    /\ AtaReturned /\ ata.ret = 0 /\ ata.words = SectorWords

\* C24: write durability ordering.  ata_write_sector issues command 0x30 after
\* programming the registers, sends 256 words only after data-ready, issues the
\* cache flush 0xE7 only after the wait that follows the transfer succeeded,
\* returns 0 only if the wait after the flush succeeded, and after a failed
\* wait returns -1 without any later step.
C24_WriteOrdering ==
    ata.fn = "ata_write_sector" =>
        /\ \A j \in 1..Len(ata.log) :
              /\ IsOut(ata.log[j], ATA_COMMAND, 48) => ProgrammedBefore(j)
              /\ IsOut(ata.log[j], ATA_COMMAND, 231) => TransferDone(j - 1)
              /\ (ata.log[j].k = "ata_wait" /\ ata.log[j].val # 0)
                    => /\ j = Len(ata.log)
                       /\ AtaReturned /\ ata.ret = -1
                       /\ ata.words = ata.log[j].words
        /\ ata.words <= SectorWords
        /\ ata.words > 0 => \E j \in 1..Len(ata.log) :
                                /\ DataReady(j)
                                /\ OutBefore(j, ATA_COMMAND, 48)
        /\ (AtaReturned /\ ata.ret = 0)
              => /\ Len(ata.log) >= 2
                 /\ IsWait(ata.log[Len(ata.log)], 0, 0)
                 /\ IsOut(ata.log[Len(ata.log) - 1], ATA_COMMAND, 231)
                 /\ ata.words = SectorWords

\* C24 witness: a write that returned 0
C24_Witness ==
    /\ ata.fn = "ata_write_sector" /\ ata.lba = 16909060
    /\ AtaReturned /\ ata.ret = 0

\* a write whose wait after the flush failed: the words were sent, -1 returned
C24_WitnessFlushFailed ==
    /\ ata.fn = "ata_write_sector"
    /\ AtaReturned /\ ata.ret = -1 /\ ata.words = SectorWords
    /\ Len(ata.log) >= 2
    /\ IsOut(ata.log[Len(ata.log) - 1], ATA_COMMAND, 231)

\* 1-based position of the first '.' of str, Len(str) + 1 when it has none
RECURSIVE FirstDot(_, _)
FirstDot(str, p) ==
    IF p > Len(str) \/ str[p] = 46 THEN p ELSE FirstDot(str, p + 1)

\* the 8.3 reference: up to 8 characters of the part before the first '.', up
\* to 3 of the part after it, letters in upper case, padded with spaces
Reference83(str) ==
    LET dot == FirstDot(str, 1)
        base == SubSeq(str, 1, dot - 1)
        ext == SubSeq(str, dot + 1, Len(str))
    IN  [k \in 1..11 |->
            IF k <= 8 THEN (IF k <= Len(base) THEN Upper(base[k]) ELSE 32)
            ELSE IF k - 8 <= Len(ext) THEN Upper(ext[k - 8]) ELSE 32]

\* C25: name normalisation matches the 8.3 reference.  For every name,
\* make_dos_name yields the 11 bytes of the reference: also when the part before
\* the '.' has more than 8 characters, the excess is dropped and the extension
\* is what follows the '.'.
C25_NameNormalization ==
    io.op = "make_dos_name" => io.buf = Reference83(io.arg)

\* for names whose part before the first '.' has at most 8 characters the two agree
C25_ShortBaseNames ==
    (io.op = "make_dos_name" /\ FirstDot(io.arg, 1) <= 9) => io.buf = Reference83(io.arg)

\* the smallest data cluster whose entry in FAT copy 0 is 0x0000
FirstFreeCluster(d) ==
    CHOOSE c \in DataClusters :
        FatEntry(d, 0, c) = 0 /\ \A c2 \in DataClusters : c2 < c => FatEntry(d, 0, c2) # 0

\* C26: free-cluster search.  fat_find_free_cluster returns the smallest cluster
\* of [2, 2 + number of data clusters) whose FAT entry is 0x0000, and -1 when
\* there is none; a returned cluster is never 0 or 1 and its sector lies in
\* [first_data_sector, TOTAL_SECTORS).
C26_FreeClusterSearch ==
    io.op = "fat_find_free_cluster" =>
        IF \E c \in DataClusters : FatEntry(disk, 0, c) = 0
        THEN /\ io.sec = FirstFreeCluster(disk)
             /\ io.sec \notin {0, 1}
             /\ cluster_to_sector(io.sec) >= first_data_sector
             /\ cluster_to_sector(io.sec) < TOTAL_SECTORS
        ELSE io.sec = -1

\* C26 witness: only the last data cluster is free, and it is the one returned
C26_Witness ==
    /\ io.op = "fat_find_free_cluster"
    /\ io.sec = 2 + max_clusters - 1
    /\ cluster_to_sector(io.sec) = TOTAL_SECTORS - 1

\* every data cluster is taken while the entry after the last one is free: -1
C26_WitnessNone ==
    /\ io.op = "fat_find_free_cluster"
    /\ io.sec = -1
    /\ FatEntry(disk, 0, 2 + max_clusters) = 0

\* the sector of FAT copy "copy" that holds the entry of cluster c
FatSectorOf(copy, c) == first_fat_sector + copy * SECTORS_PER_FAT + ((c * 2) \div SECTOR_SIZE)

\* C27: set_entry effect and frame.  On a working drive, fat_set_entry(c, v) for
\* a cluster c whose entry lies inside the FAT stores v little-endian at byte
\* offset 2c of every FAT copy, fat_get_entry(c) then returns v, and no other
\* byte of the FAT copies, the root directory or the data area changes:
\* fat_get_entry of every other cluster returns what it returned before.
C27_SetEntryFrame ==
    io.op = "fat_set_entry" =>
        LET c == io.sec
            v == io.arg[1]
            touched == {FatSectorOf(copy, c) : copy \in 0..(NUM_FATS - 1)}
        IN  /\ \A copy \in 0..(NUM_FATS - 1) :
                  /\ Byte(disk[FatSectorOf(copy, c)], (c * 2) % SECTOR_SIZE) = v % 256
                  /\ Byte(disk[FatSectorOf(copy, c)], ((c * 2) % SECTOR_SIZE) + 1) = v \div 256
            /\ fat_get_entry(disk, c) = v
            /\ \A s \in 0..(TOTAL_SECTORS - 1) :
                  IF s \in touched
                  THEN \A b \in 0..(SECTOR_SIZE - 1) :
                          b \notin {(c * 2) % SECTOR_SIZE, ((c * 2) % SECTOR_SIZE) + 1}
                             => Byte(disk[s], b) = Byte(pre[s], b)
                  ELSE disk[s] = pre[s]
            /\ \A k \in (FatClusters \cup DataClusters) \ {c} :
                  fat_get_entry(disk, k) = fat_get_entry(pre, k)

\* C27 witness: the last entry of the first FAT sector was in use and is given a
\* value with two different bytes
C27_Witness ==
    /\ io.op = "fat_set_entry" /\ io.sec = 255 /\ io.arg = <<4660>>
    /\ fat_get_entry(pre, 255) = 65535
    /\ fat_get_entry(disk, 255) = 4660

\* no two in-use root-directory entries carry the same 11-byte name
UniqueNames(d) ==
    \A i \in InUseSlots(d), j \in InUseSlots(d) :
        i # j => \E k \in 0..10 : SlotByte(d, i, k) # SlotByte(d, j, k)

\* the root-directory slots the last fat16_write_file call changed
ChangedSlots == {i \in Slots : Slot(disk, i) # Slot(pre, i)}

\* C28: directory slot selection.  A write_file of a name that already has an
\* in-use entry rewrites that slot, even if a never-used or deleted slot comes
\* earlier; a write_file of a new name uses the first never-used (0x00) or
\* deleted (0xE5) slot in scan order; so a volume without two in-use entries
\* of the same name stays so.  (Stated for successful calls during which the
\* drive answers every command.)
C28_SlotSelection ==
    (Written /\ pre[DriveCond] = Healthy /\ w.ret = 0) =>
        /\ NamePresent(pre, make_dos_name(w.name))
              => ChangedSlots \subseteq SlotsNamed(pre, make_dos_name(w.name))
        /\ ~NamePresent(pre, make_dos_name(w.name))
              => /\ ChangedSlots \subseteq {FirstFreeSlot(pre)}
                 /\ SlotHasName(disk, FirstFreeSlot(pre), make_dos_name(w.name))
        /\ UniqueNames(pre) => UniqueNames(disk)

\* the part of C28 the code keeps: a name carried by no in-use entry goes to the
\* first never-used or deleted slot
C28_NewNameSlot ==
    (Written /\ pre[DriveCond] = Healthy /\ w.ret = 0
        /\ ~NamePresent(pre, make_dos_name(w.name)))
        => /\ ChangedSlots \subseteq {FirstFreeSlot(pre)}
           /\ SlotHasName(disk, FirstFreeSlot(pre), make_dos_name(w.name))

\* slot i holds what write_file(w.name, w.data) is said to store: the name, the
\* attribute 0x20, the starting cluster and the size, with bytes "zeroed" zero
EntryOfCall(d, i, zeroed) ==
    /\ SlotHasName(d, i, make_dos_name(w.name))
    /\ SlotByte(d, i, 11) = 32
    /\ \A k \in zeroed : SlotByte(d, i, k) = 0
    /\ SlotSize(d, i) = Len(w.data)
    /\ IF Len(w.data) = 0 THEN SlotCluster(d, i) = 0
       ELSE /\ SlotCluster(d, i) \in DataClusters
            /\ Len(w.data) <= SECTOR_SIZE => d[cluster_to_sector(SlotCluster(d, i))] = Trim(w.data)

\* the slots that share the directory sector of slot i
SectorMates(i) == {j \in Slots : j # i /\ (j * 32) \div SECTOR_SIZE = (i * 32) \div SECTOR_SIZE}

\* C29: directory entry contents.  After a successful write_file(name, data)
\* the 32 bytes of the entry's slot are: bytes 0-10 the name in 8.3 form, byte
\* 11 = 0x20, bytes 12-25 zero, bytes 26-27 the starting cluster and bytes
\* 28-31 the length, both little-endian; the other entries of the same
\* directory sector are as before.  (Stated for calls during which the drive
\* answers every command.)
C29_EntryContents ==
    (Written /\ pre[DriveCond] = Healthy /\ w.ret = 0) =>
        \E i \in Slots :
            /\ EntryOfCall(disk, i, 12..25)
            /\ \A j \in SectorMates(i) : Slot(disk, j) = Slot(pre, j)

\* what the code does: bytes 12-17 are zeroed, bytes 18-25 keep what the slot held
C29_WrittenBytes ==
    (Written /\ pre[DriveCond] = Healthy /\ w.ret = 0) =>
        \E i \in Slots :
            /\ EntryOfCall(disk, i, 12..17)
            /\ \A k \in 18..25 : SlotByte(disk, i, k) = SlotByte(pre, i, k)
            /\ \A j \in SectorMates(i) : Slot(disk, j) = Slot(pre, j)

\* C30: a failed write is atomic for the target file.  When write_file(name,
\* data) returns failure, a following read_file of the same name returns what
\* it would have returned before the failed call: the same return value and
\* the same bytes in the caller's buffer.
C30_FailedWriteAtomic ==
    (ReadDone /\ Written /\ w.ret # 0 /\ SameFile(r.name, w.name)) =>
        /\ r.ret = fat16_read_file(pre, r.name, r.maxlen).ret
        /\ r.out = fat16_read_file(pre, r.name, r.maxlen).out

\* The failure that breaks it: the old chain is freed (kernel.c:588-596) and
\* its cluster is handed out again and overwritten (kernel.c:629) before the
\* search for a free cluster fails (kernel.c:608); the directory entry still
\* names the cluster, which now holds bytes of the rejected data.
C30_OverwrittenBeforeFailure ==
    /\ ReadDone /\ Written /\ w.site = "disk_full" /\ SameFile(r.name, w.name)
    /\ fat16_read_file(pre, r.name, r.maxlen).ret = 1
    /\ r.ret = 1
    /\ r.out # fat16_read_file(pre, r.name, r.maxlen).out

\* the directory is full and the file does not exist: the write failed after
\* it had taken a cluster, and the read that follows still reports not-found
C30_WitnessDirFull ==
    /\ ReadDone /\ Written /\ w.site = "dir_full" /\ SameFile(r.name, w.name)
    /\ Len(w.data) > 0 /\ disk # pre
    /\ r.ret = -1

C31_WitnessFailed ==
    /\ ReadDone /\ Written /\ ~SameFile(r.name, w.name)
    /\ w.ret # 0 /\ disk # pre
    /\ r.ret > 0

\* following FAT links from c ends at an end-of-chain marker, through data
\* clusters only and without visiting a cluster twice
RECURSIVE EndsAtMarker(_, _, _)
EndsAtMarker(d, c, seen) ==
    /\ c \in DataClusters
    /\ c \notin seen
    /\ \/ FatEntry(d, 0, c) >= 65528
       \/ EndsAtMarker(d, FatEntry(d, 0, c), seen \cup {c})

\* no entry of a data cluster links it to itself or to a free cluster, and
\* every chain ends
WellFormedFat(d) ==
    \A c \in DataClusters :
        FatEntry(d, 0, c) # 0 =>
            /\ FatEntry(d, 0, c) # c
            /\ FatEntry(d, 0, c) \in DataClusters => FatEntry(d, 0, FatEntry(d, 0, c)) # 0
            /\ EndsAtMarker(d, c, {})

\* C32: no FAT cycles.  After format() and any sequence of write_file calls
\* (successful, DiskFull or DirectoryFull), following FAT links from any data
\* cluster with a non-zero entry reaches an end-of-chain marker without
\* visiting a cluster twice, and no entry links a cluster to itself or to a
\* free cluster.
C32_NoFatCycles == WellFormedFat(disk)

\* what the code keeps: the FAT is well formed as long as no call has failed
C32_NoCyclesWhileNoFailure == ~failed => WellFormedFat(disk)

\* the call that breaks it: the search for a free cluster failed after a
\* cluster had been linked to itself
C32_SelfLinkLeft ==
    /\ Written /\ w.site = "disk_full"
    /\ \E c \in DataClusters : FatEntry(pre, 0, c) = 0 /\ FatEntry(disk, 0, c) = c

\* the sectors of both FAT copies and of the data area
FatArea == first_fat_sector..(first_fat_sector + NUM_FATS * SECTORS_PER_FAT - 1)
DataArea == first_data_sector..(TOTAL_SECTORS - 1)

\* C33: DirectoryFull has no side effects.  A write_file call that fails
\* because the root directory has neither a matching entry nor a free slot
\* leaves both FAT copies and every data sector unchanged.
C33_DirFullNoSideEffects ==
    (Written /\ w.site = "dir_full") =>
        \A s \in FatArea \cup DataArea : disk[s] = pre[s]

\* what the code keeps: the root directory is unchanged by such a call, and so
\* is the whole volume when the data is empty
C33_DirFullKeepsDirectory ==
    (Written /\ w.site = "dir_full") =>
        /\ RootDir(disk) = RootDir(pre)
        /\ Len(w.data) = 0 => disk = pre

\* the call that breaks it: one byte for a new name on a volume whose 512
\* slots are taken; cluster 2 is marked end-of-chain and its sector written
C33_ClusterTakenBeforeFailure ==
    /\ Written /\ w.site = "dir_full" /\ Len(w.data) = 1
    /\ FatEntry(pre, 0, 2) = 0 /\ FatEntry(disk, 0, 2) = 65535 /\ FatEntry(disk, 1, 2) = 65535
    /\ disk[cluster_to_sector(2)] = w.data

\* C34: termination on any disk contents.  For arbitrary contents of the FAT
\* and the root directory (cyclic or self-linked chains, out-of-range links),
\* every write_file and read_file call terminates: the chain-freeing loop is
\* left, and the allocation loop and the chain-reading loop end in the
\* function's return.
C34_Termination ==
    /\ (loop.phase = "free") ~> (loop.phase # "free")
    /\ (loop.phase = "alloc") ~> (loop.phase = "done")
    /\ (loop.phase = "read") ~> (loop.phase = "done")

\* C34 witness: write_file has returned after freeing a chain that started at
\* a cluster linked to itself or to a cycle
C34_Witness ==
    /\ loop.phase = "done" /\ loop.fn = "fat16_write_file"
    /\ \E i \in SlotsNamed(pre, make_dos_name(loop.name)) :
          /\ SlotCluster(pre, i) = 2
          /\ ~EndsAtMarker(pre, 2, {})
          /\ FatEntry(pre, 0, 2) >= 2

\* read_file has returned after following a cyclic chain for as many sectors
\* as the buffer holds
C34_WitnessRead ==
    /\ loop.phase = "done" /\ loop.fn = "fat16_read_file"
    /\ loop.ret = 2000
    /\ FatEntry(disk, 0, 2) = 3 /\ FatEntry(disk, 0, 3) = 2

\* followed pass by pass, the calls return what fat16_write_file and
\* fat16_read_file return and leave the volume they leave
C34_SameAsWholeCall ==
    (loop.phase = "done") =>
        IF loop.fn = "fat16_write_file"
        THEN /\ loop.ret = fat16_write_file(pre, loop.name, loop.data).ret
             /\ disk = fat16_write_file(pre, loop.name, loop.data).disk
        ELSE /\ loop.ret = fat16_read_file(pre, loop.name, loop.maxlen).ret
             /\ disk = pre

\* C35: region separation.  After format(), in any sequence of write_file and
\* read_file calls, the boot sector (sector 0) is never written, FAT-entry
\* updates write only sectors of the FAT area [1, 9), directory updates only
\* sectors of the root-directory area [9, 41), and file data only sectors of
\* the data area [41, 512).
C35_RegionSeparation ==
    /\ disk[0] = BootSector
    /\ \A x \in loop.wr :
          /\ x[2] # 0
          /\ x[1] = "fat" => x[2] \in 1..8
          /\ x[1] = "dir" => x[2] \in 9..40
          /\ x[1] = "data" => x[2] \in 41..511
    /\ loop.fn = "fat16_read_file" => (loop.wr = {} /\ disk = pre)

\* every sector a call has changed is one it passed to write_sector
C35_ChangesAreLogged ==
    \A s \in 0..(TOTAL_SECTORS - 1) : disk[s] # pre[s] => s \in {x[2] : x \in loop.wr}

\* C35 witness: a write of more than one sector has returned after FAT, data
\* and directory writes
C35_Witness ==
    /\ loop.phase = "done" /\ loop.fn = "fat16_write_file" /\ loop.ret = 0
    /\ Len(loop.data) > SECTOR_SIZE
    /\ {x[1] : x \in loop.wr} = {"fat", "data", "dir"}
    /\ nops = MaxChainCalls

\* the chains of the in-use entries that carry the name
ChainsNamed(d, dosname) == UNION {Reach(d, SlotCluster(d, i), {}) : i \in SlotsNamed(d, dosname)}

\* during the call the drive failed reads of some sector and no write
ReadsFailed(d) ==
    d[DriveCond].bad # {} /\ d[DriveCond].rstage # 0 /\ d[DriveCond].wstage = 0

\* C36: a read failure does not clobber neighbours.  When a device read fails
\* during the read-modify-write of a FAT sector in set_entry or of a directory
\* sector in write_file, the other FAT entries and directory entries of that
\* sector keep their on-disk values: the call changes at most one directory
\* slot, every FAT entry of a cluster that was in use and not on the file's
\* old chain is as before, and no such cluster is on the file's new chain.
C36_ReadFailureKeepsNeighbours ==
    (Written /\ ReadsFailed(pre)) =>
        /\ Cardinality(ChangedSlots) <= 1
        /\ \A c \in UsedClusters(pre) \ ChainsNamed(pre, make_dos_name(w.name)) :
              /\ \A copy \in 0..(NUM_FATS - 1) : FatEntry(disk, copy, c) = FatEntry(pre, copy, c)
              /\ w.ret = 0 => c \notin ChainsNamed(disk, make_dos_name(w.name))

\* the call that breaks it: reads of directory sector 9 fail, the sector is
\* written back from a zeroed buffer and in-use entries of other names are gone
C36_EntriesZeroed ==
    /\ Written /\ ReadsFailed(pre) /\ w.ret = 0
    /\ \E j \in InUseSlots(pre) :
          /\ ~SlotHasName(pre, j, make_dos_name(w.name))
          /\ Slot(disk, j) = [k \in 0..31 |-> 0]
          /\ \E i \in SectorMates(j) : SlotHasName(disk, i, make_dos_name(w.name))
\* C37: in the editor, whatever keys are pressed, edit_cursor <= edit_len <=
\* EDIT_BUF_SIZE - 1, both stacks hold between 0 and UNDO_STACK_SIZE actions,
\* edit_len never wraps below zero and edit_buf is never indexed out of bounds
C37_EditorBufferBounds ==
    /\ ed.edit_cursor <= Len(ed.edit_buf)
    /\ Len(ed.edit_buf) <= EDIT_BUF_SIZE - 1
    /\ Len(ed.undo_stack) <= UNDO_STACK_SIZE
    /\ Len(ed.redo_stack) <= UNDO_STACK_SIZE
    /\ ~ed.oob

\* C38: undo and redo are inverses.  After insertions and backspaces, k undos
\* (k no larger than the number of edits made) leave the text, and so its
\* length, as it was k edits earlier, k redos right after leave it as it was
\* before the undos, and a new edit empties the redo stack: the text is the
\* one the history has reached, and the redo stack holds one action for each
\* text of the history that was undone.
C38_UndoRedoInverse ==
    hist.tracked =>
        /\ ed.edit_buf = hist.texts[hist.at]
        /\ Len(ed.redo_stack) = Len(hist.texts) - hist.at

\* diagnostic: the same as long as no more than UNDO_STACK_SIZE edits were made
C38_InverseWithinStack ==
    (hist.tracked /\ hist.base + Len(hist.texts) - 1 <= UNDO_STACK_SIZE) =>
        /\ ed.edit_buf = hist.texts[hist.at]
        /\ Len(ed.redo_stack) = Len(hist.texts) - hist.at

\* diagnostic: two edits were made, and Ctrl is held down
C38_TwoEditsMade ==
    /\ hist.tracked /\ hist.base = 0
    /\ Len(hist.texts) = 3 /\ hist.at = 3
    /\ call.fn = "editor_handle_scancode" /\ ed.ctrl_down # 0
    /\ Len(ed.undo_stack) = 2 /\ ed.redo_stack = << >>
    /\ hist.texts[2] # hist.texts[3]

\* what a key does while an application is active: it goes to that application
\* only; the kernel prints nothing and changes neither its own statics nor
\* those of the other application
KeyGoesToActive ==
    /\ (calc.active # 0) =>
          /\ call'.fn = "calc_handle_scancode" /\ call'.put = 0
          /\ ed' = ed /\ kbd' = kbd
    /\ (calc.active = 0 /\ ed.editor_active # 0) =>
          /\ call'.fn = "editor_handle_scancode" /\ call'.put = 0
          /\ calc' = calc /\ kbd' = kbd

\* C39: mode exclusivity.  Whatever scancodes handle_scancode is given, the
\* editor and the calculator are never active together, and while either is
\* active every scancode is passed to that application only: the kernel neither
\* prints the character nor starts the other application.
C39_ModeExclusivity ==
    /\ [](~(ed.editor_active # 0 /\ calc.active # 0))
    /\ [][KeyGoesToActive]_vars

\* C39 witness: the editor was used and left, and the calculator, now active,
\* has taken a key
C39_Witness ==
    /\ ed.editor_active = 0 /\ ed.edit_buf # << >>
    /\ calc.active # 0 /\ calc.input # << >>
    /\ call.fn = "calc_handle_scancode"

\* the last key made the kernel start an application, whose first act is to
\* redraw the screen through callbacks.clear_screen and callbacks.draw_char,
\* or made the editor call a file callback
CalledBack == call.fn \in {"editor_start", "calc_start"} \/ call.fat # "none"

\* C40: callbacks are registered before use.  For any interleaving of keyboard
\* interrupts with kernel_main once init_idt64 has returned, a handler that
\* calls an editor or calculator callback does so after editor_set_callbacks /
\* calc_set_callbacks has set it and after editor_init / calc_init has run.
C40_CallbacksRegistered ==
    CalledBack =>
        IF call.fn = "calc_start"
        THEN Executed("calc_init", call.pc) /\ Executed("calc_set_callbacks", call.pc)
        ELSE Executed("editor_init", call.pc) /\ Executed("editor_set_callbacks", call.pc)

\* diagnostic: Ctrl+E arrived while fat16_init was running, and the call through
\* the null clear_screen stopped the machine
C40_FaultDuringFormat ==
    /\ pc = Fault
    /\ call.fn = "editor_start"
    /\ kernel_main[call.pc] = "fat16_init_returns"

====================
